---- MODULE Spec2Model ----
(***************************************************************************)
(* Model of the Sendspin player's receive pipeline:                        *)
(*   - ClockSync        (lib/clock-sync.js, current revision)              *)
(*   - AudioScheduler   (lib/audio-scheduler.js)                           *)
(*   - SendspinClient   (lib/sendspin-client.js, current revision)         *)
(*                                                                         *)
(* Three specifications share the module:                                  *)
(*   SpecClock : one ClockSync fed with sync samples on a millisecond      *)
(*               clock.                                                    *)
(*   SpecSched : one AudioScheduler with its ClockSync, driven by the      *)
(*               calls the client makes on it, with a millisecond clock.   *)
(*   Spec      : the SendspinClient session and connection state machine,  *)
(*               with its sockets, timers and asynchronous continuations.  *)
(* Handlers are operators from a state record to a state record, so that a *)
(* handler calling another handler is function composition.                *)
(***************************************************************************)
EXTENDS Integers, Sequences, FiniteSets, TLC

\* ------------------------------------------------------------------ bounds
MaxTicks == 2
MaxChunks == 2
MaxSamples == 3
MaxClockTicks == 4
BufferMs == 40
MaxSockets == 2
MaxStarts == 2
MaxRuns == 1
MaxRequests == 6
MaxSchedulers == 1
MaxDiscoveries == 1
MaxCommands == 2
MaxFrames == 2
MaxSessionTicks == 1
MaxArrivals == 54
MaxHeapChunks == 4
MaxHangChunks == 2
MaxHangTicks == 3
MaxStreamStarts == 3
MaxBufferChunks == 610

\* ------------------------------------------------------- program constants
ChunkDurationMs == 20
MaxQueueCap == 600
QueueHeadroom == 50
LateWindowMs == 50
BufferingTimeoutMs == 5000
NoPlayTimeoutMs == 3000
RecentReceiveMs == 2000
LargeQueueTimeoutMs == 5000
LargeQueueLen == 10
LostDropLimit == 20
MaxRttUs == 100000
GoodRttUs == 50000
StaleSyncMs == 5000
EstimateAheadUs == 500000
BrokenDiffMs == 3600000
InitialSyncRounds == 5
ReconnectDelay == 1000
MaxReconnectDelay == 30000
NormalClosure == 1000
AbnormalClosure == 1006

\* The value of a field that holds null.
Null == -1
\* The clock reading (Date.now(), milliseconds) at construction.
NowStart == 100000

VARIABLES
  \* the wall clock, milliseconds
  now, ticks,
  \* ClockSync
  serverLoopStartUnix, rtt, quality, lastSync, sampleCount, synced,
  \* AudioScheduler
  bufferQueue, buffering, running, processInterval, watchdogInterval,
  bufferStartTime, lastPlayTime, lastReceiveTime, consecutiveDrops, stats,
  \* observation of the scheduler's calls
  phase, lastReleased, lastDropped, awaitRefill, releasedDuringRefill,
  streamClearCalls, lastIngress, lastConverted,
  \* ClockSync on wide values: serverLoopStartUnix as a pair
  serverLoopStartWide,
  \* the instant the running scheduler's buffering period began
  bufferingSince,
  \* droppedCount of the attemptRecovery call of the last step
  droppedCount,
  \* bufferMs, bufferTarget and maxQueueSize of a constructed AudioScheduler
  constructed,
  \* SendspinClient: configuration and fields
  configServerAddr, shouldReconnect, reconnectAttempts, reconnectTimeout, ws,
  isConnected, currentStreamFormat, serverAddress, clockSyncLoopInterval,
  pendingSyncRequests, initialSyncComplete, scheduler, advertiseInterval,
  \* the sockets the client created, the schedulers whose timers are active
  sockets, schedulers, schedulerCount,
  \* asynchronous work in flight: discoverServer, performInitialSync, stop
  discovery, discoveryCount, syncRuns, timeSeq, hostPhase, startCount,
  \* observation of the client's calls
  stopReturned, attemptK, attemptDelay, midStreamClose, lastNotify,
  \* SendspinClient: config.volume, config.muted, the decodes in flight
  volume, muted, decodes, decodeFailed,
  \* the server/command messages and the binary frames handled so far
  commandCount, frameCount,
  \* observation of a session: the last client/state payload that left, the
  \* chunks handed to onAudioChunk, the calls of onStreamEnd, the inbound
  \* message handled by the last step, the outcome of a failed start()
  lastState, sink, streamEndCalls, lastInbound, startFailure,
  \* SendspinClient: playbackState, currentMetadata, and the state last
  \* handed to onPlaybackStateChange
  playbackState, currentMetadata, playbackNotified

clientVars == << configServerAddr, shouldReconnect, reconnectAttempts,
                 reconnectTimeout, ws, isConnected, currentStreamFormat,
                 serverAddress, clockSyncLoopInterval, pendingSyncRequests,
                 initialSyncComplete, scheduler, advertiseInterval, sockets,
                 schedulers, schedulerCount, discovery, discoveryCount,
                 syncRuns, timeSeq, hostPhase, startCount, stopReturned,
                 attemptK, attemptDelay, midStreamClose, lastNotify,
                 volume, muted, decodes, decodeFailed, commandCount,
                 frameCount,
                 lastState, sink, streamEndCalls, lastInbound, startFailure,
                 playbackState, currentMetadata, playbackNotified >>

schedVars == << now, ticks, serverLoopStartUnix, rtt, quality, lastSync,
                sampleCount, synced, bufferQueue, buffering, running,
                processInterval, watchdogInterval, bufferStartTime,
                lastPlayTime, lastReceiveTime, consecutiveDrops, stats,
                phase, lastReleased, lastDropped, awaitRefill,
                releasedDuringRefill, streamClearCalls, lastIngress,
                lastConverted, serverLoopStartWide,
                bufferingSince, droppedCount, constructed >>

vars == << schedVars, clientVars >>

\* No chunk was handled by schedule() in the last step.
NoIngress == [playAtUs |-> Null, atUs |-> Null]

\* serverToUnixTime was not called in the last step.
NoConversion ==
  [called |-> FALSE, serverTime |-> [ms |-> 0, us |-> 0],
   value |-> [ms |-> 0, us |-> 0]]

Max(a, b) == IF a >= b THEN a ELSE b
Min(a, b) == IF a <= b THEN a ELSE b
Abs(a) == IF a >= 0 THEN a ELSE 0 - a

\* Date.now() * 1000
NowUs(S) == S.now * 1000

\* The scheduler and clock state as one record.
SchedState ==
  [ now |-> now, ticks |-> ticks,
    serverLoopStartUnix |-> serverLoopStartUnix, rtt |-> rtt,
    quality |-> quality, lastSync |-> lastSync, sampleCount |-> sampleCount,
    synced |-> synced,
    bufferQueue |-> bufferQueue, buffering |-> buffering, running |-> running,
    processInterval |-> processInterval, watchdogInterval |-> watchdogInterval,
    bufferStartTime |-> bufferStartTime, lastPlayTime |-> lastPlayTime,
    lastReceiveTime |-> lastReceiveTime, consecutiveDrops |-> consecutiveDrops,
    stats |-> stats,
    phase |-> phase, lastReleased |-> lastReleased,
    lastDropped |-> lastDropped, awaitRefill |-> awaitRefill,
    releasedDuringRefill |-> releasedDuringRefill,
    streamClearCalls |-> streamClearCalls, lastIngress |-> lastIngress,
    lastConverted |-> lastConverted,
    serverLoopStartWide |-> serverLoopStartWide,
    bufferingSince |-> bufferingSince,
    droppedCount |-> droppedCount,
    constructed |-> constructed ]

SchedAssign(S) ==
  /\ now' = S.now /\ ticks' = S.ticks
  /\ serverLoopStartUnix' = S.serverLoopStartUnix /\ rtt' = S.rtt
  /\ quality' = S.quality /\ lastSync' = S.lastSync
  /\ sampleCount' = S.sampleCount /\ synced' = S.synced
  /\ bufferQueue' = S.bufferQueue /\ buffering' = S.buffering
  /\ running' = S.running /\ processInterval' = S.processInterval
  /\ watchdogInterval' = S.watchdogInterval
  /\ bufferStartTime' = S.bufferStartTime /\ lastPlayTime' = S.lastPlayTime
  /\ lastReceiveTime' = S.lastReceiveTime
  /\ consecutiveDrops' = S.consecutiveDrops /\ stats' = S.stats
  /\ phase' = S.phase /\ lastReleased' = S.lastReleased
  /\ lastDropped' = S.lastDropped /\ awaitRefill' = S.awaitRefill
  /\ releasedDuringRefill' = S.releasedDuringRefill
  /\ streamClearCalls' = S.streamClearCalls
  /\ lastIngress' = S.lastIngress
  /\ lastConverted' = S.lastConverted
  /\ serverLoopStartWide' = S.serverLoopStartWide
  /\ bufferingSince' = S.bufferingSince
  /\ droppedCount' = S.droppedCount
  /\ constructed' = S.constructed

SchedApply(S) == SchedAssign(S) /\ UNCHANGED clientVars

\* ---------------------------------------------------------------- ClockSync

\* processSyncResponse, with the origin re-anchored on every accepted sample.
ProcessSyncResponseReanchor(S, t1, t2, t3, t4) ==
  LET r == (t4 - t1) - (t3 - t2)
      S1 == [S EXCEPT !.rtt = r, !.lastSync = S.now]
  IN IF r > MaxRttUs THEN S1
     ELSE [S1 EXCEPT !.serverLoopStartUnix = NowUs(S) - t2,
                     !.synced = TRUE,
                     !.quality = IF r < GoodRttUs THEN "good" ELSE "degraded",
                     !.sampleCount = @ + 1]

\* processSyncResponse, counting the sample before the RTT test.
ProcessSyncResponseCountsAll(S, t1, t2, t3, t4) ==
  LET r == (t4 - t1) - (t3 - t2)
      S1 == [S EXCEPT !.rtt = r, !.lastSync = S.now, !.sampleCount = @ + 1]
  IN IF r > MaxRttUs THEN S1
     ELSE IF ~S1.synced
          THEN [S1 EXCEPT !.serverLoopStartUnix = NowUs(S) - t2,
                          !.synced = TRUE,
                          !.quality = "good"]
          ELSE [S1 EXCEPT !.quality = IF r < GoodRttUs THEN "good"
                                                       ELSE "degraded"]

ProcessSyncResponse(S, t1, t2, t3, t4) ==
  LET r == (t4 - t1) - (t3 - t2)
      S1 == [S EXCEPT !.rtt = r, !.lastSync = S.now]
  IN IF r > MaxRttUs THEN S1
     ELSE IF ~S1.synced
          THEN [S1 EXCEPT !.serverLoopStartUnix = NowUs(S) - t2,
                          !.synced = TRUE,
                          !.quality = "good",
                          !.sampleCount = @ + 1]
          ELSE [S1 EXCEPT !.quality = IF r < GoodRttUs THEN "good"
                                                       ELSE "degraded",
                          !.sampleCount = @ + 1]

\* getStats, calling a sync stale after twice the time.
GetStatsLenient(S) ==
  IF S.lastSync # Null /\ S.now - S.lastSync > 2 * StaleSyncMs
  THEN [S EXCEPT !.quality = "lost"]
  ELSE S

\* getStats: downgrades the quality of a stale sync as a side effect.
GetStats(S) ==
  IF S.lastSync # Null /\ S.now - S.lastSync > StaleSyncMs
  THEN [S EXCEPT !.quality = "lost"]
  ELSE S

\* Math.abs(diff) > 3600000000, on numbers kept below 2^31.
BrokenConversion(diff) ==
  \/ Abs(diff) \div 1000 > BrokenDiffMs
  \/ Abs(diff) \div 1000 = BrokenDiffMs /\ Abs(diff) % 1000 > 0

\* serverToUnixTime: the value it returns, in the state GetStats leaves.
ServerToUnixTime(S, serverTime) ==
  LET S1 == GetStats(S)
      unixTime == S1.serverLoopStartUnix + serverTime
  IN IF S1.quality = "lost" THEN NowUs(S1) + EstimateAheadUs
     ELSE IF ~S1.synced THEN NowUs(S1)
     ELSE IF BrokenConversion(unixTime - NowUs(S1))
          THEN NowUs(S1) + EstimateAheadUs
          ELSE unixTime

\* ClockSync on microsecond values of any size.  A JavaScript number holds
\* 53 bits; a value of x microseconds is kept as the pair of x \div 1000 and
\* x % 1000, so that server loop times of hours can be told apart.
Wide(ms, us) == [ms |-> ms + (us \div 1000), us |-> us % 1000]
WideOf(x) == Wide(0, x)
WideAdd(a, b) == Wide(a.ms + b.ms, a.us + b.us)
WideSub(a, b) == Wide(a.ms - b.ms, a.us - b.us)
\* a > limit, for a limit that fits in an integer
WideGreater(a, limit) ==
  \/ a.ms > limit \div 1000
  \/ a.ms = limit \div 1000 /\ a.us > limit % 1000
\* a < limit
WideLess(a, limit) ==
  \/ a.ms < limit \div 1000
  \/ a.ms = limit \div 1000 /\ a.us < limit % 1000
\* Math.abs(a) > limitMs * 1000
WideAbsExceeds(a, limitMs) ==
  \/ a.ms > limitMs
  \/ a.ms = limitMs /\ a.us > 0
  \/ a.ms < 0 - limitMs

\* Date.now() * 1000
WideNowUs(S) == Wide(S.now, 0)

\* serverLoopStartUnix when it holds null.
WideNull == [ms |-> Null, us |-> Null]

\* processSyncResponse on wide values; serverLoopStartWide is the pair kept
\* for serverLoopStartUnix.
ProcessSyncResponseWide(S, t1, t2, t3, t4) ==
  LET r == WideSub(WideSub(t4, t1), WideSub(t3, t2))
      S1 == [S EXCEPT !.rtt = r.ms * 1000 + r.us, !.lastSync = S.now]
  IN IF WideGreater(r, MaxRttUs) THEN S1
     ELSE IF ~S1.synced
          THEN [S1 EXCEPT !.serverLoopStartWide = WideSub(WideNowUs(S), t2),
                          !.synced = TRUE,
                          !.quality = "good",
                          !.sampleCount = @ + 1]
          ELSE [S1 EXCEPT !.quality = IF WideLess(r, GoodRttUs) THEN "good"
                                                                ELSE "degraded",
                          !.sampleCount = @ + 1]

\* serverToUnixTime on wide values, testing synced before the quality.
ServerToUnixTimeWideSyncedFirst(S, serverTime) ==
  LET S1 == GetStats(S)
      nowUnix == WideNowUs(S1)
      unixTime == WideAdd(S1.serverLoopStartWide, serverTime)
  IN IF ~S1.synced THEN nowUnix
     ELSE IF S1.quality = "lost" THEN WideAdd(nowUnix, WideOf(EstimateAheadUs))
     ELSE IF WideAbsExceeds(WideSub(unixTime, nowUnix), BrokenDiffMs)
          THEN WideAdd(nowUnix, WideOf(EstimateAheadUs))
          ELSE unixTime

\* serverToUnixTime on wide values: the pair it returns.
ServerToUnixTimeWide(S, serverTime) ==
  LET S1 == GetStats(S)
      nowUnix == WideNowUs(S1)
      unixTime == WideAdd(S1.serverLoopStartWide, serverTime)
  IN IF S1.quality = "lost" THEN WideAdd(nowUnix, WideOf(EstimateAheadUs))
     ELSE IF ~S1.synced THEN nowUnix
     ELSE IF WideAbsExceeds(WideSub(unixTime, nowUnix), BrokenDiffMs)
          THEN WideAdd(nowUnix, WideOf(EstimateAheadUs))
          ELSE unixTime

\* ----------------------------------------------------------- AudioScheduler

\* The constructor's bufferTarget and maxQueueSize for a given bufferMs.
BufferTargetOf(bufferMs) == Max(1, bufferMs \div ChunkDurationMs)
MaxQueueSizeOf(bufferMs) ==
  Min(MaxQueueCap, (bufferMs \div ChunkDurationMs) + QueueHeadroom)

bufferTarget == BufferTargetOf(BufferMs)
maxQueueSize == MaxQueueSizeOf(BufferMs)

\* No AudioScheduler has been constructed with an observed bufferMs.
NotConstructed ==
  [bufferMs |-> Null, bufferTarget |-> Null, maxQueueSize |-> Null]

\* new AudioScheduler(clockSync, bufferMs, logger): the sizes it computes.
Constructor(bufferMs) ==
  [bufferMs |-> bufferMs,
   bufferTarget |-> BufferTargetOf(bufferMs),
   maxQueueSize |-> MaxQueueSizeOf(bufferMs)]

Swap(q, i, j) == [q EXCEPT ![i] = q[j], ![j] = q[i]]

\* bubbleUp, on the 1-based array (the parent of i is i \div 2).
RECURSIVE BubbleUp(_, _)
BubbleUp(q, i) ==
  IF i <= 1 THEN q
  ELSE LET p == i \div 2
       IN IF q[p].playAt <= q[i].playAt THEN q
          ELSE BubbleUp(Swap(q, p, i), p)

\* bubbleDown, looking at the left child only.
RECURSIVE BubbleDownLeftOnly(_, _)
BubbleDownLeftOnly(q, i) ==
  LET left == 2 * i
      s1 == IF left <= Len(q) /\ q[left].playAt < q[i].playAt THEN left ELSE i
  IN IF s1 = i THEN q ELSE BubbleDownLeftOnly(Swap(q, i, s1), s1)

\* bubbleDown, on the 1-based array (the children of i are 2i and 2i + 1).
RECURSIVE BubbleDown(_, _)
BubbleDown(q, i) ==
  LET left == 2 * i
      right == 2 * i + 1
      s1 == IF left <= Len(q) /\ q[left].playAt < q[i].playAt THEN left ELSE i
      s2 == IF right <= Len(q) /\ q[right].playAt < q[s1].playAt THEN right ELSE s1
  IN IF s2 = i THEN q ELSE BubbleDown(Swap(q, i, s2), s2)

InsertBuffer(q, b) == BubbleUp(Append(q, b), Len(q) + 1)

\* pop: the array after removing its first element.
Pop(q) ==
  IF Len(q) = 0 THEN q
  ELSE LET last == q[Len(q)]
           rest == SubSeq(q, 1, Len(q) - 1)
       IN IF Len(rest) > 0 THEN BubbleDown([rest EXCEPT ![1] = last], 1)
          ELSE rest

\* start(onBufferReady)
SchedStart(S) ==
  IF S.running THEN S
  ELSE [S EXCEPT !.running = TRUE, !.bufferStartTime = S.now,
                 !.lastPlayTime = Null, !.lastReceiveTime = Null,
                 !.consecutiveDrops = 0,
                 !.processInterval = TRUE, !.watchdogInterval = TRUE]

\* The queue-full check of schedule, letting one more chunk in.
QueueFullLoose(S) == Len(S.bufferQueue) > maxQueueSize

\* The queue-full check of schedule.
QueueFull(S) == Len(S.bufferQueue) >= maxQueueSize

\* The late test of schedule, dropping a chunk that is exactly 50 ms late.
TooLateInclusive(delayMs) == delayMs <= 0 - LateWindowMs

\* The late test of schedule.
TooLate(delayMs) == delayMs < 0 - LateWindowMs

\* schedule(audioData, timestamp).  The play instant it computed and the
\* clock reading it compared it with are observed.
Schedule(S, timestamp) ==
  LET S0 == [S EXCEPT !.lastReceiveTime = S.now]
      serverUnixTime == ServerToUnixTime(S0, timestamp)
      S1 == GetStats(S0)
      playAt == serverUnixTime \div 1000
      delayMs == playAt - S1.now
      buffer == [timestamp |-> timestamp, playAt |-> playAt,
                 playAtUs |-> serverUnixTime]
      S2 == [S1 EXCEPT !.stats.received = @ + 1,
                       !.lastIngress = [playAtUs |-> serverUnixTime,
                                        atUs |-> NowUs(S1)]]
  IN IF TooLate(delayMs)
     THEN [S2 EXCEPT !.stats.dropped = @ + 1, !.consecutiveDrops = @ + 1]
     ELSE IF QueueFull(S2)
     THEN [S2 EXCEPT !.stats.dropped = @ + 1, !.consecutiveDrops = @ + 1]
     ELSE [S2 EXCEPT !.bufferQueue = InsertBuffer(@, buffer),
                     !.awaitRefill = @ /\ Len(S2.bufferQueue) + 1 < bufferTarget]

\* The while loop of processQueue, with the release window widened.
RECURSIVE ReleaseLoopWide(_)
ReleaseLoopWide(S) ==
  IF Len(S.bufferQueue) = 0 THEN S
  ELSE LET buffer == S.bufferQueue[1]
           delayMs == buffer.playAt - S.now
           obs == [playAtUs |-> buffer.playAtUs, atUs |-> NowUs(S),
                   nth |-> Cardinality(S.lastReleased)
                           + Cardinality(S.lastDropped) + 1]
       IN IF delayMs > LateWindowMs + 1 THEN S
          ELSE IF delayMs < 0 - LateWindowMs
          THEN ReleaseLoopWide(
                 [S EXCEPT !.bufferQueue = Pop(@), !.stats.dropped = @ + 1,
                           !.consecutiveDrops = @ + 1,
                           !.lastDropped = @ \cup {obs}])
          ELSE ReleaseLoopWide(
                 [S EXCEPT !.bufferQueue = Pop(@), !.stats.played = @ + 1,
                           !.lastPlayTime = S.now, !.consecutiveDrops = 0,
                           !.lastReleased = @ \cup {obs}])

\* The while loop of processQueue.
RECURSIVE ReleaseLoop(_)
ReleaseLoop(S) ==
  IF Len(S.bufferQueue) = 0 THEN S
  ELSE LET buffer == S.bufferQueue[1]
           delayMs == buffer.playAt - S.now
           obs == [playAtUs |-> buffer.playAtUs, atUs |-> NowUs(S),
                   nth |-> Cardinality(S.lastReleased)
                           + Cardinality(S.lastDropped) + 1]
           dropped == [S EXCEPT !.bufferQueue = Pop(@),
                                !.stats.dropped = @ + 1,
                                !.consecutiveDrops = @ + 1,
                                !.lastDropped = @ \cup {obs}]
           logsStats == dropped.consecutiveDrops >= 10
                        /\ dropped.consecutiveDrops % 10 = 0
       IN IF delayMs > LateWindowMs THEN S
          ELSE IF delayMs < 0 - LateWindowMs
          THEN ReleaseLoop(IF logsStats THEN GetStats(dropped) ELSE dropped)
          ELSE ReleaseLoop(
                 [S EXCEPT !.bufferQueue = Pop(@), !.stats.played = @ + 1,
                           !.lastPlayTime = S.now, !.consecutiveDrops = 0,
                           !.lastReleased = @ \cup {obs}])

\* The buffering test of processQueue, holding playback back at the target.
StillBufferingAtTarget(S) ==
  S.buffering /\ Len(S.bufferQueue) <= bufferTarget

\* The buffering test of processQueue: buffering, and the queue is short of
\* bufferTarget.
StillBuffering(S) ==
  S.buffering /\ Len(S.bufferQueue) < bufferTarget

\* processQueue
ProcessQueue(S) ==
  LET S0 == [S EXCEPT !.lastReleased = {}, !.lastDropped = {},
                      !.lastIngress = NoIngress, !.droppedCount = Null]
      S1 == ReleaseLoop([S0 EXCEPT !.buffering = FALSE])
  IN IF StillBuffering(S0) THEN S0
     ELSE [S1 EXCEPT !.releasedDuringRefill =
                        @ \/ (S1.awaitRefill /\ S1.lastReleased # {})]

\* attemptRecovery, leaving stats.dropped as it was.
AttemptRecoveryUncounted(S) ==
  LET S1 == GetStats(S)
  IN [S1 EXCEPT !.bufferQueue = << >>,
                !.buffering = TRUE,
                !.bufferStartTime = S1.now,
                !.consecutiveDrops = 0,
                !.droppedCount = Max(@, 0) + Len(S1.bufferQueue)]

\* attemptRecovery
AttemptRecovery(S) ==
  LET S1 == GetStats(S)
  IN [S1 EXCEPT !.stats.dropped = @ + Len(S1.bufferQueue),
                !.bufferQueue = << >>,
                !.buffering = TRUE,
                !.bufferStartTime = S1.now,
                !.consecutiveDrops = 0,
                !.droppedCount = Max(@, 0) + Len(S1.bufferQueue)]

\* Check 1 of checkForHang: buffering is taking too long.
BufferingTooLong(S) ==
  S.buffering /\ S.bufferStartTime # Null
  /\ S.now - S.bufferStartTime > BufferingTimeoutMs

\* checkForHang
CheckForHang(S) ==
  LET S0 == GetStats(S)
      syncQuality == S0.quality
      \* 1. buffering is taking too long
      S1 == IF BufferingTooLong(S0)
            THEN [S0 EXCEPT !.buffering = FALSE, !.bufferStartTime = Null]
            ELSE S0
      \* 2. receiving but not playing
      S2 == IF ~S1.buffering /\ S1.lastReceiveTime # Null
               /\ S1.lastPlayTime # Null
            THEN IF S1.now - S1.lastReceiveTime < RecentReceiveMs
                    /\ S1.now - S1.lastPlayTime > NoPlayTimeoutMs
                 THEN AttemptRecovery(S1) ELSE S1
            ELSE IF ~S1.buffering /\ S1.lastReceiveTime # Null
                    /\ S1.lastPlayTime = Null
                    /\ S1.now - S1.lastReceiveTime > NoPlayTimeoutMs
                 THEN AttemptRecovery(S1) ELSE S1
      \* 3. sync lost and dropping
      S3 == IF syncQuality = "lost" /\ S2.consecutiveDrops > LostDropLimit
            THEN AttemptRecovery(S2) ELSE S2
      \* 4. large queue, nothing playing
      S4 == IF ~S3.buffering /\ Len(S3.bufferQueue) > LargeQueueLen
               /\ S3.lastPlayTime # Null
               /\ S3.now - S3.lastPlayTime > LargeQueueTimeoutMs
            THEN AttemptRecovery(S3) ELSE S3
  IN IF ~S.running THEN S ELSE S4

\* stop
SchedStop(S) ==
  [S EXCEPT !.processInterval = FALSE, !.watchdogInterval = FALSE,
            !.running = FALSE, !.bufferQueue = << >>, !.buffering = TRUE,
            !.bufferStartTime = Null, !.lastPlayTime = Null,
            !.lastReceiveTime = Null, !.consecutiveDrops = 0]

\* clear
SchedClear(S) ==
  [S EXCEPT !.bufferQueue = << >>, !.buffering = TRUE]

\* ----------------------------------------------------------- SendspinClient

\* The value of this.ws, this.scheduler when they hold null.
NoSocket == 0
NoScheduler == 0

\* config.volume when the host configures none.
DefaultVolume == 100

\* A field a payload does not carry.
Absent == "absent"

\* No client/state has left; no inbound message was handled by the last
\* step; start() has not failed.
NoState == [volume |-> Null, muted |-> FALSE]
NoInbound == [type |-> "none", value |-> Null, flag |-> FALSE, echoes |-> 0,
              state |-> Absent]
NoFailure == [seen |-> FALSE, flag |-> FALSE, threw |-> FALSE,
              scheduled |-> FALSE]

\* onAudioChunk has not been called: the calls made by the scheduler's
\* onBufferReady callback, the calls made by handleBinaryMessage itself.
NoChunks == [release |-> 0, fallback |-> 0]

\* config.decoder: the plugin passes its AudioDecoder.
ConfigDecoder == TRUE

RECURSIVE Pow2(_)
Pow2(n) == IF n <= 0 THEN 1 ELSE 2 * Pow2(n - 1)

\* The client state as one record.
ClientState ==
  [ configServerAddr |-> configServerAddr,
    shouldReconnect |-> shouldReconnect,
    reconnectAttempts |-> reconnectAttempts,
    reconnectTimeout |-> reconnectTimeout, ws |-> ws,
    isConnected |-> isConnected, currentStreamFormat |-> currentStreamFormat,
    serverAddress |-> serverAddress,
    clockSyncLoopInterval |-> clockSyncLoopInterval,
    pendingSyncRequests |-> pendingSyncRequests,
    initialSyncComplete |-> initialSyncComplete, scheduler |-> scheduler,
    advertiseInterval |-> advertiseInterval, sockets |-> sockets,
    schedulers |-> schedulers, schedulerCount |-> schedulerCount,
    discovery |-> discovery, discoveryCount |-> discoveryCount,
    syncRuns |-> syncRuns, timeSeq |-> timeSeq, hostPhase |-> hostPhase,
    startCount |-> startCount, stopReturned |-> stopReturned,
    attemptK |-> attemptK, attemptDelay |-> attemptDelay,
    midStreamClose |-> midStreamClose, lastNotify |-> lastNotify,
    volume |-> volume, muted |-> muted, decodes |-> decodes,
    decodeFailed |-> decodeFailed,
    commandCount |-> commandCount, frameCount |-> frameCount,
    lastState |-> lastState, sink |-> sink,
    streamEndCalls |-> streamEndCalls, lastInbound |-> lastInbound,
    startFailure |-> startFailure,
    playbackState |-> playbackState, currentMetadata |-> currentMetadata,
    playbackNotified |-> playbackNotified ]

ClientAssign(K) ==
  /\ configServerAddr' = K.configServerAddr
  /\ shouldReconnect' = K.shouldReconnect
  /\ reconnectAttempts' = K.reconnectAttempts
  /\ reconnectTimeout' = K.reconnectTimeout /\ ws' = K.ws
  /\ isConnected' = K.isConnected
  /\ currentStreamFormat' = K.currentStreamFormat
  /\ serverAddress' = K.serverAddress
  /\ clockSyncLoopInterval' = K.clockSyncLoopInterval
  /\ pendingSyncRequests' = K.pendingSyncRequests
  /\ initialSyncComplete' = K.initialSyncComplete
  /\ scheduler' = K.scheduler /\ advertiseInterval' = K.advertiseInterval
  /\ sockets' = K.sockets /\ schedulers' = K.schedulers
  /\ schedulerCount' = K.schedulerCount
  /\ discovery' = K.discovery /\ discoveryCount' = K.discoveryCount
  /\ syncRuns' = K.syncRuns /\ timeSeq' = K.timeSeq
  /\ hostPhase' = K.hostPhase /\ startCount' = K.startCount
  /\ stopReturned' = K.stopReturned
  /\ attemptK' = K.attemptK /\ attemptDelay' = K.attemptDelay
  /\ midStreamClose' = K.midStreamClose /\ lastNotify' = K.lastNotify
  /\ volume' = K.volume /\ muted' = K.muted /\ decodes' = K.decodes
  /\ decodeFailed' = K.decodeFailed
  /\ commandCount' = K.commandCount /\ frameCount' = K.frameCount
  /\ lastState' = K.lastState /\ sink' = K.sink
  /\ streamEndCalls' = K.streamEndCalls /\ lastInbound' = K.lastInbound
  /\ startFailure' = K.startFailure
  /\ playbackState' = K.playbackState
  /\ currentMetadata' = K.currentMetadata
  /\ playbackNotified' = K.playbackNotified

ClientApply(K) == ClientAssign(K) /\ UNCHANGED schedVars

\* A step other than the close of the current socket during a stream.
ClientStep(K) ==
  ClientApply([K EXCEPT !.midStreamClose = FALSE, !.lastInbound = NoInbound])

\* A step of a session: the client and the scheduler object it holds.
SessionStep(K, S) ==
  /\ ClientAssign([K EXCEPT !.midStreamClose = FALSE])
  /\ SchedAssign([S EXCEPT !.lastReleased = {}, !.lastDropped = {},
                           !.lastIngress = NoIngress])

\* new WebSocket(url) with the listeners and the 10 s timer of connect().
NewSocket(awaiter) ==
  [ state |-> "connecting", opened |-> FALSE, listeners |-> TRUE,
    connectionResolved |-> FALSE, timeoutCleared |-> FALSE, timer |-> TRUE,
    awaiter |-> awaiter, helloSeen |-> FALSE,
    sent |-> << >>, stopOpen |-> FALSE, stopDone |-> FALSE ]

\* sendMessage: writes only to the current socket, and only when it is OPEN.
SendMessage(K, type) ==
  IF K.ws # NoSocket /\ K.sockets[K.ws].state = "open"
  THEN [K EXCEPT !.sockets[K.ws].sent = Append(@, type)]
  ELSE K

SendClientHello(K) == SendMessage(K, "client/hello")

\* sendState(state, volume, muted): the payload is observed when it leaves.
SendState(K, vol, mut) ==
  LET K1 == SendMessage(K, "client/state")
  IN IF K1.sockets = K.sockets THEN K1
     ELSE [K1 EXCEPT !.lastState = [volume |-> vol, muted |-> mut]]

\* sendInitialState: sendState('synchronized', volume, false)
SendInitialState(K) == SendState(K, K.volume, FALSE)

SendGoodbye(K) == SendMessage(K, "client/goodbye")

\* sendClientTime: the request enters the pending table whether or not the
\* message leaves.  origin tells initial-sync requests from loop requests.
SendClientTime(K, t1, origin) ==
  SendMessage([K EXCEPT !.pendingSyncRequests = @ \cup {t1},
                        !.timeSeq = Max(@, t1)],
              IF origin = "initial" THEN "client/time" ELSE "client/time(loop)")

\* onStateChange({connected})
Notify(K, connected) ==
  [K EXCEPT !.lastNotify = IF connected THEN "connected" ELSE "disconnected"]

\* scheduleReconnect
ScheduleReconnect(K) ==
  LET K1 == [K EXCEPT !.reconnectTimeout = 0]
      attempts == K1.reconnectAttempts + 1
  IN IF ~K1.shouldReconnect THEN K1
     ELSE [K1 EXCEPT !.reconnectAttempts = attempts,
                     !.reconnectTimeout =
                        Min(ReconnectDelay * Pow2(attempts - 1), MaxReconnectDelay)]

\* connect(): the socket is created and becomes the current one.
Connect(K, awaiter) ==
  [K EXCEPT !.sockets = Append(@, NewSocket(awaiter)),
            !.ws = Len(K.sockets) + 1]

\* The code after "await this.connect()" in start() and in the reconnect
\* timer callback.
ConnectResolved(K, awaiter) ==
  [K EXCEPT !.reconnectAttempts = 0, !.attemptK = 0]

\* The catch block of start() with the rethrow made unconditional.
ConnectRejectedRethrows(K, awaiter) ==
  IF awaiter = "start"
  THEN [K EXCEPT !.startFailure =
          [seen |-> TRUE, flag |-> K.shouldReconnect, threw |-> TRUE,
           scheduled |-> K.reconnectTimeout # 0]]
  ELSE ScheduleReconnect(K)

\* The catch block of start() and of the reconnect timer callback.  What the
\* catch block of start() did is observed: the flag it read, whether it
\* rethrew, whether a reconnect timer was pending when it ended.
ConnectRejected(K, awaiter) ==
  IF awaiter = "start"
  THEN LET K1 == IF K.shouldReconnect THEN ScheduleReconnect(K) ELSE K
       IN [K1 EXCEPT !.startFailure =
             [seen |-> TRUE, flag |-> K.shouldReconnect,
              threw |-> ~K.shouldReconnect,
              scheduled |-> K1.reconnectTimeout # 0]]
  ELSE ScheduleReconnect(K)

\* The 'open' listener of socket s.  Reading this.ws.readyState throws when
\* this.ws is null, which ends the listener.
OpenHandler(K, s) ==
  LET K1 == [K EXCEPT !.sockets[s].timeoutCleared = TRUE,
                      !.sockets[s].timer = FALSE]
      K2 == SendClientHello([K1 EXCEPT !.isConnected = TRUE])
      K3 == [Notify(K2, TRUE) EXCEPT !.sockets[s].connectionResolved = TRUE]
  IN IF K.sockets[s].connectionResolved THEN K
     ELSE IF K1.ws = NoSocket THEN K1
     ELSE ConnectResolved(K3, K.sockets[s].awaiter)

\* The 'error' listener of socket s, without the continuation of a rejection.
ErrorHandler(K, s) ==
  IF K.sockets[s].connectionResolved
  THEN Notify([K EXCEPT !.isConnected = FALSE], FALSE)
  ELSE [Notify([K EXCEPT !.isConnected = FALSE], FALSE) EXCEPT
           !.sockets[s].timeoutCleared = TRUE,
           !.sockets[s].timer = FALSE,
           !.sockets[s].connectionResolved = TRUE]

\* The 'close' listener of socket s, without the continuation of a rejection.
CloseHandler(K, s, code) ==
  LET rejects == ~K.sockets[s].connectionResolved /\ code # NormalClosure
      K1 == [K EXCEPT !.sockets[s].timeoutCleared = TRUE,
                      !.sockets[s].timer = FALSE,
                      !.isConnected = FALSE,
                      !.currentStreamFormat = FALSE,
                      !.sockets[s].connectionResolved = @ \/ rejects,
                      !.ws = NoSocket]
      K2 == Notify(K1, FALSE)
  IN IF K2.shouldReconnect /\ K2.sockets[s].connectionResolved
     THEN ScheduleReconnect(K2)
     ELSE K2

\* The callback of connect()'s 10 s timer for socket s.  It inspects and
\* detaches the socket that is current when it fires.
TimeoutHandler(K, s) ==
  LET rejected == [K EXCEPT !.sockets[s].connectionResolved = TRUE]
  IN IF K.sockets[s].timeoutCleared \/ K.sockets[s].connectionResolved THEN K
     ELSE IF K.ws # NoSocket
     THEN IF K.sockets[K.ws].state = "connecting"
          THEN ConnectRejected(
                 [rejected EXCEPT !.sockets[K.ws].listeners = FALSE,
                                  !.ws = NoSocket,
                                  !.isConnected = FALSE],
                 K.sockets[s].awaiter)
          ELSE K
     ELSE ConnectRejected(rejected, K.sockets[s].awaiter)

\* stopClockSyncLoop
StopClockSyncLoop(K) == [K EXCEPT !.clockSyncLoopInterval = FALSE]

\* startClockSyncLoop
StartClockSyncLoop(K) == [K EXCEPT !.clockSyncLoopInterval = TRUE]

\* this.scheduler.stop(); this.scheduler = null
DropScheduler(K) ==
  IF K.scheduler = NoScheduler THEN K
  ELSE [K EXCEPT !.schedulers = @ \ {K.scheduler}, !.scheduler = NoScheduler]

\* handleTextMessage, case 'server/hello': the initial state, then the first
\* round of performInitialSync up to its first await.
HandleServerHello(K, s) ==
  LET K1 == SendInitialState([K EXCEPT !.sockets[s].helloSeen = TRUE])
      t1 == K1.timeSeq + 1
      K2 == [K1 EXCEPT !.syncRuns =
                Append(@, [round |-> 1, pc |-> "await", t1 |-> t1])]
  IN SendClientTime(K2, t1, "initial")

\* performInitialSync after a round and its pause, with a caller that does
\* not start the continuous loop.
NextSyncRoundNoLoop(K, r) ==
  LET t1 == K.timeSeq + 1
      next == [K EXCEPT !.syncRuns[r].round = @ + 1, !.syncRuns[r].t1 = t1]
      done == [K EXCEPT !.syncRuns[r].pc = "done", !.initialSyncComplete = TRUE]
  IN IF K.syncRuns[r].round < InitialSyncRounds
     THEN SendClientTime(next, t1, "initial")
     ELSE done

\* performInitialSync after a round and its pause: the next round's request
\* is sent, or the run completes and its caller starts the continuous loop.
NextSyncRound(K, r) ==
  LET t1 == K.timeSeq + 1
      next == [K EXCEPT !.syncRuns[r].round = @ + 1, !.syncRuns[r].t1 = t1]
      done == [K EXCEPT !.syncRuns[r].pc = "done", !.initialSyncComplete = TRUE]
  IN IF K.syncRuns[r].round < InitialSyncRounds
     THEN SendClientTime(next, t1, "initial")
     ELSE StartClockSyncLoop(done)

\* handleTimeSyncResponse: a reply that matches no pending request is dropped.
HandleTimeSyncResponse(K, clientTransmitted) ==
  IF clientTransmitted \notin K.pendingSyncRequests THEN K
  ELSE [K EXCEPT !.pendingSyncRequests = @ \ {clientTransmitted}]

\* handleTimeSyncResponse on the clock filter, without the pending check.
TimeSyncFilterAlways(K, S, clientTransmitted, rttUs, serverTime) ==
  ProcessSyncResponse(S, NowUs(S) - rttUs, serverTime, serverTime, NowUs(S))

\* handleTimeSyncResponse on the clock filter: processSyncResponse is called
\* for a reply that matches a pending request.  The request was transmitted
\* rttUs before now.
TimeSyncFilter(K, S, clientTransmitted, rttUs, serverTime) ==
  IF clientTransmitted \notin K.pendingSyncRequests THEN S
  ELSE ProcessSyncResponse(S, NowUs(S) - rttUs, serverTime, serverTime,
                           NowUs(S))

\* handleTextMessage, case 'stream/start'
HandleStreamStart(K) ==
  LET id == K.schedulerCount + 1
  IN [K EXCEPT !.currentStreamFormat = TRUE,
               !.scheduler = id,
               !.schedulerCount = id,
               !.schedulers = @ \cup {id}]

\* handleTextMessage, case 'stream/end'
HandleStreamEnd(K) ==
  [DropScheduler(K) EXCEPT !.currentStreamFormat = FALSE]

\* The messages of the given type written to any socket so far.
RECURSIVE CountSent(_, _, _)
CountSent(K, type, s) ==
  IF s = 0 THEN 0
  ELSE Cardinality({i \in DOMAIN K.sockets[s].sent :
                      K.sockets[s].sent[i] = type})
       + CountSent(K, type, s - 1)

\* handleTextMessage, case 'server/command', for a command that carries its
\* value.  cmd is "volume" (value vol) or "mute" (value mut).
HandleServerCommand(K, cmd, vol, mut) ==
  IF cmd = "volume"
  THEN SendState([K EXCEPT !.volume = vol], vol, FALSE)
  ELSE IF cmd = "mute"
  THEN SendState([K EXCEPT !.muted = mut], K.volume, mut)
  ELSE K

\* String.prototype.toLowerCase on the playback states a server sends.
ToLowerCase(str) ==
  CASE str = "PLAYING" -> "playing"
    [] str = "PAUSED" -> "paused"
    [] str = "STOPPED" -> "stopped"
    [] OTHER -> str

\* handleMetadata: the record is replaced and onMetadata is called.
HandleMetadata(K, metadata) == [K EXCEPT !.currentMetadata = metadata]

\* handleTextMessage, case 'server/state': metadata is handled, the
\* controller object is logged.
HandleServerState(K, metadata, controllerPlaybackState) ==
  IF metadata # Null THEN HandleMetadata(K, metadata) ELSE K

\* handleTextMessage, cases 'group/update' and 'session/update'
HandlePlaybackUpdate(K, payloadState) ==
  LET newState == ToLowerCase(payloadState)
  IN IF payloadState = Absent THEN K
     ELSE IF newState = K.playbackState THEN K
     ELSE [K EXCEPT !.playbackState = newState,
                    !.playbackNotified = newState]

\* new AudioScheduler(clockSync, bufferMs, logger): the fields of the new
\* object; the clock it reads is the client's.
NewScheduler(S) ==
  [S EXCEPT !.bufferQueue = << >>, !.buffering = TRUE, !.running = FALSE,
            !.processInterval = FALSE, !.watchdogInterval = FALSE,
            !.bufferStartTime = Null, !.lastPlayTime = Null,
            !.lastReceiveTime = Null, !.consecutiveDrops = 0,
            !.stats = [received |-> 0, played |-> 0, dropped |-> 0],
            !.awaitRefill = FALSE, !.releasedDuringRefill = FALSE,
            !.streamClearCalls = 0]

\* handleTextMessage, case 'stream/start', on the client and on the scheduler
\* object it creates and starts.
StreamStart(K, S) ==
  [K |-> HandleStreamStart(K),
   S |-> [SchedStart(NewScheduler(S)) EXCEPT !.phase = "started"]]

\* handleTextMessage, case 'stream/end', with scheduler.stop() left out.
StreamEndKeepsTimers(K, S) ==
  [K |-> [HandleStreamEnd(K) EXCEPT !.streamEndCalls = @ + 1], S |-> S]

\* handleTextMessage, case 'stream/end', on the client and on the scheduler
\* object it holds; onStreamEnd is called.
StreamEnd(K, S) ==
  [K |-> [HandleStreamEnd(K) EXCEPT !.streamEndCalls = @ + 1],
   S |-> IF K.scheduler # NoScheduler
         THEN [SchedStop(S) EXCEPT !.phase = "stopped"]
         ELSE S]

\* A binary frame: the type byte, the timestamp as a big-endian uint64, n
\* bytes of audio.  Timestamps stay below 2^31.
RECURSIVE Pow256(_)
Pow256(n) == IF n <= 0 THEN 1 ELSE 256 * Pow256(n - 1)

Frame(type, timestamp, n) ==
  << type >>
  \o [i \in 1..8 |-> IF i <= 4 THEN 0
                      ELSE (timestamp \div Pow256(8 - i)) % 256]
  \o [i \in 1..n |-> 0]

\* data.readBigUInt64BE(offset), offset counted from 0.
RECURSIVE ReadBytesBE(_, _, _, _)
ReadBytesBE(data, offset, count, acc) ==
  IF count = 0 THEN acc
  ELSE ReadBytesBE(data, offset + 1, count - 1, acc * 256 + data[offset + 1])

ReadBigUInt64BE(data, offset) == ReadBytesBE(data, offset, 8, 0)

\* The shortest frame handleBinaryMessage accepts.
MinFrameLength == 9
\* The message type of an audio chunk.
AudioChunkType == 4
\* The message type handleBinaryMessage takes for artwork.
ArtworkType == 8

\* The length check of handleBinaryMessage, refusing 9 bytes as well.
TooShortStrict(data) == Len(data) <= 9

\* The length check of handleBinaryMessage.
TooShort(data) == Len(data) < MinFrameLength

\* handleBinaryMessage up to its first await: a decode is started, or the
\* chunk goes to the scheduler or to onAudioChunk undecoded.
HandleBinaryMessage(K, S, data) ==
  LET messageType == data[1]
      timestamp == ReadBigUInt64BE(data, 1)
      encodedAudioData == SubSeq(data, MinFrameLength + 1, Len(data))
      decode(path) == [timestamp |-> timestamp,
                       bytes |-> Len(encodedAudioData), path |-> path,
                       stream |-> K.scheduler]
  IN IF TooShort(data) THEN [K |-> K, S |-> S]
     ELSE IF messageType # AudioChunkType THEN [K |-> K, S |-> S]
     ELSE IF K.scheduler # NoScheduler /\ ConfigDecoder
     THEN [K |-> [K EXCEPT !.decodes = @ \cup {decode("scheduler")}],
           S |-> S]
     ELSE IF K.scheduler # NoScheduler
     THEN [K |-> K, S |-> Schedule(S, timestamp)]
     ELSE IF ConfigDecoder
     THEN [K |-> [K EXCEPT !.decodes = @ \cup {decode("fallback")}],
           S |-> S]
     ELSE [K |-> [K EXCEPT !.sink.fallback = @ + 1], S |-> S]

\* handleBinaryMessage after decode resolved for d: the chunk is scheduled
\* on the scheduler the client holds now (with none, the call throws into
\* the catch block), or handed to onAudioChunk on the fallback path.
DecodeResolved(K, S, d) ==
  LET K1 == [K EXCEPT !.decodes = @ \ {d}]
  IN IF d.path = "fallback"
     THEN [K |-> [K1 EXCEPT !.sink.fallback = @ + 1], S |-> S]
     ELSE IF K1.scheduler # NoScheduler
     THEN [K |-> K1, S |-> Schedule(S, d.timestamp)]
     ELSE [K |-> K1, S |-> S]

\* The catch block of handleBinaryMessage, ending the stream as well.
DecodeRejectedEndsStream(K, S, d) ==
  [K |-> [DropScheduler(K) EXCEPT !.decodes = @ \ {d},
                                  !.decodeFailed = @ \cup {d.timestamp}],
   S |-> SchedStop(S)]

\* handleBinaryMessage after decode rejected for d, or after the 1 s timer
\* won the race: the catch block logs and the chunk is gone.
DecodeRejected(K, S, d) ==
  [K |-> [K EXCEPT !.decodes = @ \ {d},
                   !.decodeFailed = @ \cup {d.timestamp}],
   S |-> S]

\* The onBufferReady callback given to scheduler.start(): every buffer the
\* release pass played is handed to onAudioChunk.
ReleaseToSink(K, S) ==
  LET S1 == ProcessQueue(S)
  IN [K |-> [K EXCEPT !.sink.release =
                         @ + (S1.stats.played - S.stats.played)],
      S |-> S1]

\* stop() up to its await, with the should-reconnect flag left as it is.
StopFirstHalfKeepsFlag(K) ==
  LET K1 == [K EXCEPT !.reconnectTimeout = 0,
                      !.discovery = IF @ = "none" THEN "none" ELSE "canceled",
                      !.advertiseInterval = FALSE]
      K2 == DropScheduler(StopClockSyncLoop(K1))
      K3 == [K2 EXCEPT !.sockets =
               [i \in DOMAIN @ |->
                  [@[i] EXCEPT !.stopOpen = (K2.sockets[i].state = "open"),
                               !.stopDone = FALSE]]]
  IN IF K3.ws # NoSocket /\ K3.isConnected
     THEN [SendGoodbye(K3) EXCEPT !.hostPhase = "stopping"]
     ELSE K3

\* stop(), up to the await of the 100 ms goodbye wait.
StopFirstHalf(K) ==
  LET K1 == [K EXCEPT !.shouldReconnect = FALSE, !.reconnectTimeout = 0,
                      !.discovery = IF @ = "none" THEN "none" ELSE "canceled",
                      !.advertiseInterval = FALSE]
      K2 == DropScheduler(StopClockSyncLoop(K1))
      K3 == [K2 EXCEPT !.sockets =
               [i \in DOMAIN @ |->
                  [@[i] EXCEPT !.stopOpen = (K2.sockets[i].state = "open"),
                               !.stopDone = FALSE]]]
  IN IF K3.ws # NoSocket /\ K3.isConnected
     THEN [SendGoodbye(K3) EXCEPT !.hostPhase = "stopping"]
     ELSE K3

\* ws.close(): an OPEN or CONNECTING socket starts closing.
SocketClose(K, s) ==
  [K EXCEPT !.sockets[s].state =
              IF @ \in {"connecting", "open"} THEN "closing" ELSE @,
            !.sockets[s].sent = Append(@, "close")]

\* stop(), from the close of the socket to its return.
StopSecondHalf(K) ==
  LET K1 == IF K.ws # NoSocket
            THEN [SocketClose(K, K.ws) EXCEPT !.ws = NoSocket]
            ELSE K
  IN [K1 EXCEPT !.isConnected = FALSE,
                !.currentStreamFormat = FALSE,
                !.serverAddress = FALSE,
                !.initialSyncComplete = FALSE,
                !.pendingSyncRequests = {},
                !.hostPhase = "stopped",
                !.stopReturned = TRUE,
                !.sockets = [i \in DOMAIN @ |->
                               [@[i] EXCEPT !.stopDone = K1.sockets[i].stopOpen]]]

\* ------------------------------------------------- SpecSched: the actions

\* Offsets (microseconds) of a chunk's play instant from the current time.
Deltas == {0 - 50001, 0 - 50000, 50999, 51000}
\* Round-trip times (microseconds) of a sync exchange.
RttChoices == {49999, 50000, 99999, 100000, 100001}
\* The round-trip time of the exchange that anchors the scheduler's clock.
GoodRtt == 20000
\* Server loop time (microseconds) at the exchange that anchors the scheduler.
T2Choices == {60500}
\* Server loop times (microseconds) at the sync exchanges of SpecClock.
ClockT2Choices == {60500, 70000}
\* Clock advances (milliseconds).
TickSteps == {51, 5001}
ClockSteps == {1000, 5001}

SchedInit ==
  /\ now = NowStart /\ ticks = 0
  /\ serverLoopStartUnix = Null /\ rtt = 0 /\ quality = "lost"
  /\ lastSync = Null /\ sampleCount = 0 /\ synced = FALSE
  /\ bufferQueue = << >> /\ buffering = TRUE /\ running = FALSE
  /\ processInterval = FALSE /\ watchdogInterval = FALSE
  /\ bufferStartTime = Null /\ lastPlayTime = Null /\ lastReceiveTime = Null
  /\ consecutiveDrops = 0
  /\ stats = [received |-> 0, played |-> 0, dropped |-> 0]
  /\ phase = "new" /\ lastReleased = {} /\ lastDropped = {}
  /\ awaitRefill = FALSE /\ releasedDuringRefill = FALSE
  /\ streamClearCalls = 0 /\ lastIngress = NoIngress
  /\ lastConverted = NoConversion /\ serverLoopStartWide = WideNull
  /\ bufferingSince = Null
  /\ droppedCount = Null
  /\ constructed = NotConstructed

\* The client after its constructor.
ClientInit ==
  /\ configServerAddr = FALSE /\ shouldReconnect = FALSE
  /\ reconnectAttempts = 0 /\ reconnectTimeout = 0 /\ ws = NoSocket
  /\ isConnected = FALSE /\ currentStreamFormat = FALSE
  /\ serverAddress = FALSE /\ clockSyncLoopInterval = FALSE
  /\ pendingSyncRequests = {} /\ initialSyncComplete = FALSE
  /\ scheduler = NoScheduler /\ advertiseInterval = FALSE
  /\ sockets = << >> /\ schedulers = {} /\ schedulerCount = 0
  /\ discovery = "none" /\ discoveryCount = 0
  /\ syncRuns = << >> /\ timeSeq = 0
  /\ hostPhase = "new" /\ startCount = 0
  /\ stopReturned = FALSE /\ attemptK = 0 /\ attemptDelay = 0
  /\ midStreamClose = FALSE /\ lastNotify = "none"
  /\ volume = DefaultVolume /\ muted = FALSE /\ decodes = {}
  /\ decodeFailed = {}
  /\ commandCount = 0 /\ frameCount = 0
  /\ lastState = NoState /\ sink = NoChunks /\ streamEndCalls = 0
  /\ lastInbound = NoInbound /\ startFailure = NoFailure
  /\ playbackState = "idle" /\ currentMetadata = Null
  /\ playbackNotified = "none"

Init == SchedInit /\ ClientInit

\* Only the last release pass is observed.
Quiet(S) == [S EXCEPT !.lastReleased = {}, !.lastDropped = {},
                      !.lastIngress = NoIngress, !.droppedCount = Null]

\* The clock advances.
Tick ==
  /\ ticks < MaxTicks
  /\ \E d \in TickSteps :
       SchedApply(Quiet([SchedState EXCEPT !.now = @ + d, !.ticks = @ + 1]))

\* handleTimeSyncResponse feeds the first server/time reply to the filter.
FirstSyncResponse ==
  /\ ~synced
  /\ \E t2 \in T2Choices :
       SchedApply(Quiet(ProcessSyncResponse(SchedState,
                          NowUs(SchedState) - GoodRtt, t2, t2, NowUs(SchedState))))

\* A caller reads the clock statistics.
ReadStats ==
  /\ GetStats(SchedState) # SchedState
  /\ SchedApply(Quiet(GetStats(SchedState)))

\* stream/start: the client creates the scheduler and starts it.
StartScheduler ==
  /\ phase = "new"
  /\ SchedApply([SchedStart(SchedState) EXCEPT !.phase = "started"])

\* An audio chunk reaches the running scheduler.
ScheduleChunk ==
  /\ running
  /\ stats.received < MaxChunks
  /\ \E d \in Deltas :
       LET ts == IF synced THEN NowUs(SchedState) + d - serverLoopStartUnix
                           ELSE 100000 + d
       IN /\ ts >= 0
          /\ SchedApply(Schedule(Quiet(SchedState), ts))

\* The 10 ms release timer fires.
ReleaseTimer ==
  /\ processInterval
  /\ SchedApply(ProcessQueue(SchedState))

\* The 1 s watchdog timer fires.
WatchdogTimer ==
  /\ watchdogInterval
  /\ SchedApply(Quiet(CheckForHang(SchedState)))

\* stream/clear while the stream's scheduler exists.
StreamClear ==
  /\ running
  /\ SchedApply(Quiet([SchedClear(SchedState) EXCEPT
                          !.awaitRefill = TRUE,
                          !.releasedDuringRefill = FALSE,
                          !.streamClearCalls = 1]))

\* stream/end or client stop: the scheduler is stopped and dropped.
StopScheduler ==
  /\ running
  /\ SchedApply(Quiet([SchedStop(SchedState) EXCEPT !.phase = "stopped"]))

SchedNext ==
  \/ Tick
  \/ FirstSyncResponse
  \/ ReadStats
  \/ StartScheduler
  \/ ScheduleChunk
  \/ ReleaseTimer
  \/ WatchdogTimer
  \/ StreamClear
  \/ StopScheduler

SpecSched == Init /\ [][SchedNext]_vars

\* ------------------------------------------------- SpecClock: the actions

\* handleTimeSyncResponse feeds a server/time reply to the filter.
SyncResponse ==
  /\ sampleCount < MaxSamples
  /\ \E r \in RttChoices, t2 \in ClockT2Choices :
       SchedApply(ProcessSyncResponse(SchedState, NowUs(SchedState) - r, t2, t2,
                                      NowUs(SchedState)))

\* The clock advances.
ClockTick ==
  /\ ticks < MaxClockTicks
  /\ \E d \in ClockSteps :
       SchedApply([SchedState EXCEPT !.now = @ + d, !.ticks = @ + 1])

\* A caller converts a server timestamp: serverToUnixTime returns a value and
\* leaves the state that its getStats call leaves.
Convert ==
  /\ GetStats(SchedState) # SchedState
  /\ SchedApply(GetStats(SchedState))

ClockNext ==
  \/ SyncResponse
  \/ ClockTick
  \/ Convert

SpecClock == Init /\ [][ClockNext]_vars

\* ----------------------------------------------- SpecConvert: the actions
\* One ClockSync on wide values: sync replies from a server whose loop has
\* run for microseconds or for an hour, and conversions of server timestamps.

\* Server loop times at a sync exchange: 60500 us, one hour, one hour and
\* one microsecond.
WideT2Choices == {WideOf(60500), Wide(BrokenDiffMs, 0), Wide(BrokenDiffMs, 1)}
\* Round-trip times (microseconds) of the exchanges: good, degraded, discarded.
ConvRttChoices == {GoodRtt, GoodRttUs, MaxRttUs + 1}
\* Server timestamps handed to serverToUnixTime.
ServerTimeChoices == {WideOf(0), WideOf(ChunkDurationMs * 1000)}

\* handleTimeSyncResponse feeds a server/time reply to the filter.
ConvSyncResponse ==
  /\ sampleCount < MaxSamples
  /\ \E r \in ConvRttChoices, t2 \in WideT2Choices :
       LET t4 == WideNowUs(SchedState)
       IN SchedApply([ProcessSyncResponseWide(SchedState, WideSub(t4, WideOf(r)),
                                              t2, t2, t4)
                        EXCEPT !.lastConverted = NoConversion])

\* The clock advances.
ConvTick ==
  /\ ticks < MaxClockTicks
  /\ \E d \in ClockSteps :
       SchedApply([SchedState EXCEPT !.now = @ + d, !.ticks = @ + 1,
                                     !.lastConverted = NoConversion])

\* A caller converts a server timestamp; the value returned is observed.
ConvConvert ==
  \E serverTime \in ServerTimeChoices :
    SchedApply([GetStats(SchedState) EXCEPT
                  !.lastConverted =
                     [called |-> TRUE, serverTime |-> serverTime,
                      value |-> ServerToUnixTimeWide(SchedState, serverTime)]])

ConvNext ==
  \/ ConvSyncResponse
  \/ ConvTick
  \/ ConvConvert

SpecConvert == Init /\ [][ConvNext]_vars

\* ------------------------------------------------------ Spec: the actions

\* The address start() needs is there: connect; otherwise discover first.
BeginConnect(K, awaiter) ==
  IF K.configServerAddr \/ K.serverAddress
  THEN Connect(K, awaiter)
  ELSE [K EXCEPT !.discovery = awaiter, !.discoveryCount = @ + 1]

\* The host calls start(), on a new client or after stop() has returned.  The
\* configuration is fixed at the first call; a second call is explored for a
\* client with a configured server address.
Start ==
  /\ hostPhase \in {"new", "stopped"}
  /\ startCount < MaxStarts
  /\ discovery = "none"
  /\ Len(sockets) < MaxSockets
  /\ \E addr \in BOOLEAN :
       /\ hostPhase = "stopped" => (addr /\ configServerAddr)
       /\ LET K1 == [ClientState EXCEPT !.configServerAddr = addr,
                                        !.shouldReconnect = TRUE,
                                        !.reconnectAttempts = 0,
                                        !.advertiseInterval = TRUE,
                                        !.serverAddress = addr,
                                        !.hostPhase = "started",
                                        !.startCount = @ + 1,
                                        !.stopReturned = FALSE,
                                        !.startFailure = NoFailure,
                                        !.attemptK = 0]
          IN ClientStep(BeginConnect(K1, "start"))

\* discoverServer resolves with an address; its caller goes on to connect.
DiscoveryFound ==
  /\ discovery \in {"start", "reconnect"}
  /\ Len(sockets) < MaxSockets
  /\ ClientStep(Connect([ClientState EXCEPT !.serverAddress = TRUE,
                                            !.discovery = "none"],
                        discovery))

\* discoverServer's timeout resolves with null.
DiscoveryTimeout ==
  /\ discovery \in {"start", "reconnect"}
  /\ ClientStep(ConnectRejected([ClientState EXCEPT !.discovery = "none"],
                                discovery))

\* The browse timer of a cancelled discovery clears the timeout and ends.
DiscoveryBrowse ==
  /\ discovery = "canceled"
  /\ ClientStep([ClientState EXCEPT !.discovery = "none"])

\* The transport of socket s opens.
WsOpen ==
  \E s \in DOMAIN sockets :
    /\ sockets[s].state = "connecting"
    /\ LET K1 == [ClientState EXCEPT !.sockets[s].state = "open",
                                     !.sockets[s].opened = TRUE]
       IN ClientStep(IF sockets[s].listeners THEN OpenHandler(K1, s) ELSE K1)

\* Socket s fails before it opened (refused, or aborted by close()): 'error'
\* and 'close' are emitted, and the rejected connect() continues either after
\* both or between them.
WsConnectFail ==
  \E s \in DOMAIN sockets, betweenEvents \in BOOLEAN :
    /\ ~sockets[s].opened
    /\ sockets[s].state \in {"connecting", "closing"}
    /\ LET K0 == [ClientState EXCEPT !.sockets[s].state = "closed"]
           rejects == ~sockets[s].connectionResolved
           awaiter == sockets[s].awaiter
           K1 == ErrorHandler(K0, s)
           viaBoth == CloseHandler(K1, s, AbnormalClosure)
           viaBetween == CloseHandler(ConnectRejected(K1, awaiter), s,
                                      AbnormalClosure)
       IN ClientStep(
            IF ~sockets[s].listeners THEN K0
            ELSE IF ~rejects THEN viaBoth
            ELSE IF betweenEvents THEN viaBetween
            ELSE ConnectRejected(viaBoth, awaiter))

\* An established socket reports an error and starts closing.
WsError ==
  \E s \in DOMAIN sockets :
    /\ sockets[s].state = "open"
    /\ LET K0 == [ClientState EXCEPT !.sockets[s].state = "closing"]
           rejects == ~sockets[s].connectionResolved
           K1 == ErrorHandler(K0, s)
       IN ClientStep(
            IF ~sockets[s].listeners THEN K0
            ELSE IF rejects THEN ConnectRejected(K1, sockets[s].awaiter)
            ELSE K1)

\* An established socket closes, by the peer, the network or after close().
WsClose ==
  \E s \in DOMAIN sockets, code \in {NormalClosure, AbnormalClosure} :
    /\ sockets[s].opened
    /\ sockets[s].state \in {"open", "closing"}
    /\ LET K0 == [ClientState EXCEPT !.sockets[s].state = "closed"]
           rejects == ~sockets[s].connectionResolved /\ code # NormalClosure
           K1 == CloseHandler(K0, s, code)
           K2 == IF rejects THEN ConnectRejected(K1, sockets[s].awaiter)
                 ELSE K1
           midStream == /\ ws = s /\ sockets[s].state = "open"
                        /\ shouldReconnect
                        /\ scheduler # NoScheduler
                        /\ sockets[s].listeners
       IN ClientApply(
            IF ~sockets[s].listeners
            THEN [K0 EXCEPT !.midStreamClose = FALSE,
                            !.lastInbound = NoInbound]
            ELSE [K2 EXCEPT !.midStreamClose = midStream,
                            !.lastInbound = NoInbound])

\* The 10 s timer of the connect() that created socket s fires.
ConnectTimeout ==
  \E s \in DOMAIN sockets :
    /\ sockets[s].timer
    /\ ClientStep(TimeoutHandler([ClientState EXCEPT !.sockets[s].timer = FALSE],
                                 s))

\* The reconnect timer fires.
ReconnectTimerFire ==
  /\ reconnectTimeout # 0
  /\ discovery = "none"
  /\ Len(sockets) < MaxSockets
  /\ discoveryCount < MaxDiscoveries \/ configServerAddr \/ serverAddress
  /\ LET K1 == [ClientState EXCEPT !.reconnectTimeout = 0]
         K2 == [K1 EXCEPT !.attemptK = @ + 1,
                          !.attemptDelay = reconnectTimeout]
     IN ClientStep(IF ~K1.shouldReconnect THEN K1
                   ELSE BeginConnect(K2, "reconnect"))

\* The host calls stop(); without a connected socket it runs to its end.
StopBegin ==
  /\ hostPhase = "started"
  /\ LET K1 == StopFirstHalf(ClientState)
     IN ClientStep(IF K1.hostPhase = "stopping" THEN K1
                   ELSE StopSecondHalf(K1))

\* The 100 ms goodbye wait of stop() is over.
StopFinish ==
  /\ hostPhase = "stopping"
  /\ ClientStep(StopSecondHalf(ClientState))

\* server/hello arrives on socket s.
RecvServerHello ==
  \E s \in DOMAIN sockets :
    /\ sockets[s].listeners /\ sockets[s].opened
    /\ sockets[s].state \in {"open", "closing"}
    /\ ~sockets[s].helloSeen
    /\ Len(syncRuns) < MaxRuns
    /\ timeSeq < MaxRequests
    /\ ClientStep(HandleServerHello(ClientState, s))

\* server/time arrives on socket s, answering a pending request.
RecvServerTime ==
  \E s \in DOMAIN sockets, t1 \in pendingSyncRequests :
    /\ sockets[s].listeners /\ sockets[s].opened
    /\ sockets[s].state \in {"open", "closing"}
    /\ ClientStep(HandleTimeSyncResponse(ClientState, t1))

\* stream/start arrives on socket s.
RecvStreamStart ==
  \E s \in DOMAIN sockets :
    /\ sockets[s].listeners /\ sockets[s].opened
    /\ sockets[s].state \in {"open", "closing"}
    /\ schedulerCount < MaxSchedulers
    /\ ClientStep(HandleStreamStart(ClientState))

\* stream/end arrives on socket s.
RecvStreamEnd ==
  \E s \in DOMAIN sockets :
    /\ sockets[s].listeners /\ sockets[s].opened
    /\ sockets[s].state \in {"open", "closing"}
    /\ scheduler # NoScheduler \/ currentStreamFormat
    /\ ClientStep(HandleStreamEnd(ClientState))

\* performInitialSync resumes after a round whose request was answered (the
\* 10 ms check finds it gone from the pending table) and the 100 ms pause.
SyncRoundAnswered ==
  \E r \in DOMAIN syncRuns :
    /\ syncRuns[r].pc = "await"
    /\ syncRuns[r].t1 \notin pendingSyncRequests
    /\ syncRuns[r].round < InitialSyncRounds => timeSeq < MaxRequests
    /\ ClientStep(NextSyncRound(ClientState, r))

\* performInitialSync resumes after a round whose request was still pending
\* when the 500 ms timer fired, and the 100 ms pause.
SyncRoundTimeout ==
  \E r \in DOMAIN syncRuns :
    /\ syncRuns[r].pc = "await"
    /\ syncRuns[r].t1 \in pendingSyncRequests
    /\ syncRuns[r].round < InitialSyncRounds => timeSeq < MaxRequests
    /\ ClientStep(NextSyncRound(
                    [ClientState EXCEPT
                       !.pendingSyncRequests = @ \ {syncRuns[r].t1}], r))

\* The 1 s interval of the continuous sync loop fires: requests older than
\* 2 s are drained, then a new request is sent.
SyncLoopTick ==
  /\ clockSyncLoopInterval
  /\ timeSeq < MaxRequests
  /\ \E drain \in BOOLEAN :
       LET awaited == {t \in pendingSyncRequests :
                         \E r \in DOMAIN syncRuns :
                            syncRuns[r].pc = "await" /\ syncRuns[r].t1 = t}
           stale == IF drain THEN pendingSyncRequests \ awaited ELSE {}
       IN ClientStep(SendClientTime(
                       [ClientState EXCEPT !.pendingSyncRequests = @ \ stale],
                       timeSeq + 1, "loop"))

Next ==
  \/ Start
  \/ DiscoveryFound
  \/ DiscoveryTimeout
  \/ DiscoveryBrowse
  \/ WsOpen
  \/ WsConnectFail
  \/ WsError
  \/ WsClose
  \/ ConnectTimeout
  \/ ReconnectTimerFire
  \/ StopBegin
  \/ StopFinish
  \/ RecvServerHello
  \/ RecvServerTime
  \/ RecvStreamStart
  \/ RecvStreamEnd
  \/ SyncRoundAnswered
  \/ SyncRoundTimeout
  \/ SyncLoopTick

Spec == Init /\ [][Next]_vars

\* ------------------------------------------------- SpecQueue: the actions
\* A scheduler that receives the chunks of a stream faster than it releases
\* them.

\* The next chunk of the stream reaches the running scheduler.
QueueArrive ==
  /\ running
  /\ stats.received < MaxArrivals
  /\ SchedApply(Quiet(Schedule(SchedState,
                                ChunkDurationMs * 1000 * (stats.received + 1))))

\* The clock advances once the burst has filled the queue.
QueueTick == QueueFull(SchedState) /\ Tick

QueueNext ==
  \/ StartScheduler
  \/ QueueArrive
  \/ ReleaseTimer
  \/ WatchdogTimer
  \/ QueueTick

SpecQueue == Init /\ [][QueueNext]_vars

\* -------------------------------------------------- SpecHeap: the actions
\* A running scheduler on an anchored clock that receives chunks whose play
\* instants are in any order, some of them within the same millisecond.

\* Offsets (microseconds) of a chunk's play instant from the current time.
HeapDeltas == {400, 500, 20000, 40000, 60000}
\* Clock advance (milliseconds) between release passes.
HeapTickSteps == {60}

\* An audio chunk reaches the running scheduler.
HeapArrive ==
  /\ running /\ synced
  /\ stats.received < MaxHeapChunks
  /\ \E d \in HeapDeltas :
       SchedApply(Quiet(Schedule(SchedState,
                                 NowUs(SchedState) + d - serverLoopStartUnix)))

\* The clock advances.
HeapTick ==
  /\ running
  /\ ticks < MaxTicks
  /\ \E d \in HeapTickSteps :
       SchedApply(Quiet([SchedState EXCEPT !.now = @ + d, !.ticks = @ + 1]))

HeapNext ==
  \/ FirstSyncResponse
  \/ StartScheduler
  \/ HeapArrive
  \/ ReleaseTimer
  \/ HeapTick

SpecHeap == Init /\ [][HeapNext]_vars

\* -------------------------------------------------- SpecHang: the actions
\* A scheduler that is started, fed, cleared and watched; bufferingSince
\* keeps the instant at which the current buffering period of the running
\* scheduler began.

\* Clock advance (milliseconds) between timer callbacks.
HangTickSteps == {1000, 5001}
\* Offsets (microseconds) of a chunk's play instant from the current time.
HangDeltas == {0, 20000}

\* The scheduler is running in buffering mode.
BufferingNow(S) == S.running /\ S.buffering

\* The start of the buffering period the scheduler is in after a step from
\* S to T: a period begins when buffering is entered by start() or clear(),
\* and when attemptRecovery restarts it.
BufferingSince(S, T) ==
  IF ~BufferingNow(T) THEN Null
  ELSE IF ~BufferingNow(S) THEN T.now
  ELSE IF T.bufferStartTime # S.bufferStartTime THEN T.now
  ELSE S.bufferingSince

HangApply(T) ==
  SchedApply([T EXCEPT !.bufferingSince = BufferingSince(SchedState, T)])

\* stream/start: the client creates the scheduler and starts it.
HangStart ==
  /\ phase = "new"
  /\ HangApply([SchedStart(SchedState) EXCEPT !.phase = "started"])

\* An audio chunk reaches the running scheduler.
HangArrive ==
  /\ running /\ synced
  /\ stats.received < MaxHangChunks
  /\ \E d \in HangDeltas :
       HangApply(Quiet(Schedule(SchedState,
                                NowUs(SchedState) + d - serverLoopStartUnix)))

\* The 10 ms release timer fires.
HangRelease ==
  /\ processInterval
  /\ HangApply(ProcessQueue(SchedState))

\* The 1 s watchdog timer fires.
HangWatchdog ==
  /\ watchdogInterval
  /\ HangApply(CheckForHang(Quiet(SchedState)))

\* stream/clear while the stream's scheduler exists.
HangClear ==
  /\ running
  /\ HangApply(Quiet(SchedClear(SchedState)))

\* The clock advances.
HangTick ==
  /\ running
  /\ ticks < MaxHangTicks
  /\ \E d \in HangTickSteps :
       HangApply(Quiet([SchedState EXCEPT !.now = @ + d, !.ticks = @ + 1]))

HangNext ==
  \/ FirstSyncResponse
  \/ HangStart
  \/ HangArrive
  \/ HangRelease
  \/ HangWatchdog
  \/ HangClear
  \/ HangTick

SpecHang == Init /\ [][HangNext]_vars

\* ------------------------------------------------ SpecConfig: the actions
\* The construction of a scheduler for any configured bufferMs.

\* Configured buffer sizes (milliseconds): whole chunks and one millisecond
\* short of the next chunk, from 20 ms up to MaxBufferChunks chunks.
BufferMsChoices ==
  {k * ChunkDurationMs + r : k \in 1..MaxBufferChunks,
                             r \in {0, ChunkDurationMs - 1}}

\* stream/start constructs the scheduler with config.bufferMs.
ConstructScheduler ==
  /\ constructed = NotConstructed
  /\ \E b \in BufferMsChoices :
       SchedApply([SchedState EXCEPT !.constructed = Constructor(b)])

ConfigNext ==
  \/ ConstructScheduler

SpecConfig == Init /\ [][ConfigNext]_vars

\* -------------------------------------------------- SpecConn: the actions
\* The connection management of the client alone: start(), discovery, the
\* sockets and their events, the reconnect timer, stop().
ConnNext ==
  \/ Start
  \/ DiscoveryFound
  \/ DiscoveryTimeout
  \/ DiscoveryBrowse
  \/ WsOpen
  \/ WsConnectFail
  \/ WsError
  \/ WsClose
  \/ ConnectTimeout
  \/ ReconnectTimerFire
  \/ StopBegin
  \/ StopFinish

SpecConn == Init /\ [][ConnNext]_vars

\* The events of a connect() attempt arrive: its 10 s timer fires unless it
\* was cleared, and a socket that is connecting opens or fails, and one that
\* is open or closing closes.
SpecConnLive ==
  /\ SpecConn
  /\ WF_vars(ConnectTimeout)
  /\ WF_vars(WsOpen) /\ WF_vars(WsConnectFail) /\ WF_vars(WsClose)

\* ------------------------------------------------ SpecStream: the actions
\* One session of a client: start(), the socket, the messages of a stream,
\* the decodes, the scheduler object the client holds, stop().

\* The host calls start() on a new client that has a configured address.
SessionStart == hostPhase = "new" /\ Start /\ configServerAddr'

\* Socket s can deliver a message to its 'message' listener.
Delivers(s) ==
  /\ sockets[s].listeners /\ sockets[s].opened
  /\ sockets[s].state \in {"open", "closing"}

\* Values a server/command carries.
VolumeChoices == {0, 40}

\* server/command arrives on socket s.
RecvServerCommand ==
  \E s \in DOMAIN sockets, cmd \in {"volume", "mute"},
     vol \in VolumeChoices, mut \in BOOLEAN :
    /\ Delivers(s)
    /\ commandCount < MaxCommands
    /\ cmd = "volume" => mut = FALSE
    /\ cmd = "mute" => vol = 0
    /\ LET K1 == HandleServerCommand(ClientState, cmd, vol, mut)
           before == CountSent(ClientState, "client/state", Len(sockets))
           after == CountSent(K1, "client/state", Len(sockets))
       IN SessionStep([K1 EXCEPT !.commandCount = @ + 1,
                                 !.lastInbound =
                                    [NoInbound EXCEPT
                                       !.type = cmd, !.value = vol,
                                       !.flag = mut,
                                       !.echoes = after - before]],
                      SchedState)

\* The host calls stop(): the scheduler object the client holds is stopped.
SessionStopBegin ==
  /\ hostPhase = "started"
  /\ LET K1 == StopFirstHalf(ClientState)
         S1 == IF scheduler # NoScheduler THEN SchedStop(SchedState)
               ELSE SchedState
     IN SessionStep([(IF K1.hostPhase = "stopping" THEN K1
                      ELSE StopSecondHalf(K1))
                       EXCEPT !.lastInbound = NoInbound], S1)

\* The mark a step leaves about the message or completion it handled.
Inbound(type, value) ==
  [NoInbound EXCEPT !.type = type, !.value = value]

\* stream/start arrives on socket s while the client holds no scheduler.
OnStreamStart ==
  \E s \in DOMAIN sockets :
    /\ Delivers(s)
    /\ scheduler = NoScheduler
    /\ schedulerCount < MaxSchedulers
    /\ LET R == StreamStart(ClientState, SchedState)
       IN SessionStep([R.K EXCEPT !.lastInbound = Inbound("stream/start", 0)],
                      R.S)

\* stream/end arrives on socket s.
OnStreamEnd ==
  \E s \in DOMAIN sockets :
    /\ Delivers(s)
    /\ scheduler # NoScheduler \/ currentStreamFormat
    /\ LET R == StreamEnd(ClientState, SchedState)
       IN SessionStep([R.K EXCEPT !.lastInbound = Inbound("stream/end", 0)],
                      R.S)

\* The server timestamp of the n-th chunk of a stream, microseconds.
ChunkTimestamp(n) == n * ChunkDurationMs * 1000

\* The binary frames a server sends: audio chunks with one byte of audio and
\* with none, a chunk cut to 8 bytes, an artwork frame.
FrameChoices(n) ==
  { Frame(AudioChunkType, ChunkTimestamp(n), 1),
    Frame(AudioChunkType, ChunkTimestamp(n), 0),
    SubSeq(Frame(AudioChunkType, ChunkTimestamp(n), 0), 1, MinFrameLength - 1),
    Frame(ArtworkType, ChunkTimestamp(n), 1) }

\* A binary frame arrives on socket s.
OnBinaryMessage ==
  \E s \in DOMAIN sockets, data \in FrameChoices(frameCount + 1) :
    /\ Delivers(s)
    /\ frameCount < MaxFrames
    /\ LET R == HandleBinaryMessage(ClientState, SchedState, data)
       IN SessionStep([R.K EXCEPT !.frameCount = @ + 1,
                                 !.lastInbound = Inbound("binary", Len(data))],
                      R.S)

\* decoder.decode resolves for a chunk.
DecodeResolve ==
  \E d \in decodes :
    LET R == DecodeResolved(ClientState, SchedState, d)
    IN SessionStep([R.K EXCEPT !.lastInbound =
                                  [Inbound("decode/resolved", d.bytes) EXCEPT
                                    !.flag = (d.path = "scheduler")]],
                   R.S)

\* decoder.decode rejects for a chunk.
DecodeReject ==
  \E d \in decodes :
    LET R == DecodeRejected(ClientState, SchedState, d)
    IN SessionStep([R.K EXCEPT !.lastInbound = Inbound("decode/rejected", 0)],
                   R.S)

\* The 1 s timer of a decode fires before decoder.decode settles.
DecodeTimeout ==
  \E d \in decodes :
    /\ d.path = "scheduler"
    /\ LET R == DecodeRejected(ClientState, SchedState, d)
       IN SessionStep([R.K EXCEPT !.lastInbound = Inbound("decode/timeout", 0)],
                      R.S)

\* The 10 ms release timer of the scheduler the client created fires.
OnReleaseTimer ==
  /\ processInterval
  /\ LET R == ReleaseToSink(ClientState, SchedState)
     IN /\ R.S # SchedState
        /\ SessionStep([R.K EXCEPT !.lastInbound = NoInbound], R.S)

\* Clock advance (milliseconds) of a session.
SessionTickSteps == {500}

\* The clock advances while the scheduler of the stream runs.
SessionTick ==
  /\ ticks < MaxSessionTicks
  /\ processInterval
  /\ \E d \in SessionTickSteps :
       SessionStep([ClientState EXCEPT !.lastInbound = NoInbound],
                   [SchedState EXCEPT !.now = @ + d, !.ticks = @ + 1])

StreamNext ==
  \/ SessionStart
  \/ WsOpen
  \/ WsClose
  \/ SessionStopBegin
  \/ StopFinish
  \/ OnStreamStart
  \/ OnStreamEnd
  \/ OnBinaryMessage
  \/ DecodeResolve
  \/ DecodeReject
  \/ DecodeTimeout
  \/ OnReleaseTimer
  \/ SessionTick

SpecStream == Init /\ [][StreamNext]_vars

\* ----------------------------------------------- SpecRestart: the actions
\* One session of a client whose server starts a stream again, with or
\* without ending the stream before.

\* stream/start arrives on socket s, whether or not a stream is active.
AnyStreamStart ==
  \E s \in DOMAIN sockets :
    /\ Delivers(s)
    /\ schedulerCount < MaxStreamStarts
    /\ ClientStep(HandleStreamStart(ClientState))

RestartNext ==
  \/ SessionStart
  \/ WsOpen
  \/ WsClose
  \/ AnyStreamStart
  \/ RecvStreamEnd
  \/ StopBegin
  \/ StopFinish

SpecRestart == Init /\ [][RestartNext]_vars

\* ---------------------------------------------- SpecRestream: the actions
\* One connection of a client whose server ends a stream and starts the
\* next while decodes of the first are in flight.

\* stream/start arrives on socket s after the stream before it has ended.
OnNextStreamStart ==
  \E s \in DOMAIN sockets :
    /\ Delivers(s)
    /\ scheduler = NoScheduler
    /\ schedulerCount < MaxStreamStarts
    /\ LET R == StreamStart(ClientState, SchedState)
       IN SessionStep([R.K EXCEPT !.lastInbound = Inbound("stream/start", 0)],
                      R.S)

RestreamNext ==
  \/ SessionStart
  \/ WsOpen
  \/ OnNextStreamStart
  \/ OnStreamEnd
  \/ OnBinaryMessage
  \/ DecodeResolve
  \/ DecodeReject

SpecRestream == Init /\ [][RestreamNext]_vars

\* -------------------------------------------------- SpecSync: the actions
\* One connection of a client and its time exchanges: the five rounds of the
\* initial sync, the continuous loop, and the replies of the server, which
\* may name any request.

\* Round-trip times (microseconds) of the replies: accepted, discarded.
SyncRttChoices == {GoodRtt, MaxRttUs + 1}

\* server/time arrives on socket s; its client_transmitted names a pending
\* request, one that is no longer pending, or one never sent.
RecvAnyServerTime ==
  \E s \in DOMAIN sockets, ct \in 1..(MaxRequests + 1),
     r \in SyncRttChoices, t2 \in T2Choices :
    /\ Delivers(s)
    /\ ct <= timeSeq + 1
    /\ ct \notin pendingSyncRequests => r = GoodRtt
    /\ SessionStep(
         [HandleTimeSyncResponse(ClientState, ct) EXCEPT
            !.lastInbound = [Inbound("server/time", ct) EXCEPT
                               !.flag = (ct \in pendingSyncRequests)]],
         TimeSyncFilter(ClientState, SchedState, ct, r, t2))

SyncNext ==
  \/ SessionStart
  \/ WsOpen
  \/ RecvServerHello
  \/ RecvAnyServerTime
  \/ SyncRoundAnswered
  \/ SyncRoundTimeout
  \/ SyncLoopTick

SpecSync == Init /\ [][SyncNext]_vars

\* The timers of performInitialSync fire: the 10 ms check that finds the
\* request answered, and the 500 ms timeout, each followed by the 100 ms
\* pause.  The connection of SpecSync stays open and is never stopped.
SpecSyncLive ==
  SpecSync /\ WF_vars(SyncRoundAnswered) /\ WF_vars(SyncRoundTimeout)

\* --------------------------------------------------- SpecCmd: the actions
\* One session of a client and the commands of the server.
CmdNext ==
  \/ SessionStart
  \/ WsOpen
  \/ WsClose
  \/ StopBegin
  \/ StopFinish
  \/ RecvServerHello
  \/ RecvServerCommand

SpecCmd == Init /\ [][CmdNext]_vars

\* ---------------------------------------------- SpecPlayback: the actions
\* One session of a client and the state messages of the server.

\* The playback states a server sends, as it spells them.
PlaybackChoices == {"playing", "PAUSED", "stopped"}
\* The metadata records a server sends (by title).
MetadataChoices == {1, 2}

\* server/state arrives on socket s, with metadata, a controller object
\* carrying playback_state, or both.
RecvServerState ==
  \E s \in DOMAIN sockets, metadata \in MetadataChoices \cup {Null},
     state \in PlaybackChoices \cup {Absent} :
    /\ Delivers(s)
    /\ metadata # Null \/ state # Absent
    /\ ClientApply([HandleServerState(ClientState, metadata, state) EXCEPT
                      !.midStreamClose = FALSE,
                      !.lastInbound = [NoInbound EXCEPT
                                         !.type = "server/state",
                                         !.state = state]])

\* group/update or session/update arrives on socket s.
RecvPlaybackUpdate ==
  \E s \in DOMAIN sockets, type \in {"group/update", "session/update"},
     state \in PlaybackChoices \cup {Absent} :
    /\ Delivers(s)
    /\ ClientApply([HandlePlaybackUpdate(ClientState, state) EXCEPT
                      !.midStreamClose = FALSE,
                      !.lastInbound = [NoInbound EXCEPT
                                         !.type = type, !.state = state]])

PlaybackNext ==
  \/ SessionStart
  \/ WsOpen
  \/ WsClose
  \/ StopBegin
  \/ StopFinish
  \/ RecvServerState
  \/ RecvPlaybackUpdate

SpecPlayback == Init /\ [][PlaybackNext]_vars

\* ------------------------------------------------ properties of SpecSched

\* C1: in every reachable state of a scheduler, stats.received equals
\* stats.played + stats.dropped + the number of chunks in the queue.
C1_StatsBalance ==
  stats.received = stats.played + stats.dropped + Len(bufferQueue)

\* C5: after stream/clear no chunk is released to the sink until the queue
\* again holds bufferTarget chunks.
C5_NoReleaseBeforeRefill ==
  streamClearCalls > 0 => ~releasedDuringRefill

C7_OriginFixed ==
  [][synced => serverLoopStartUnix' = serverLoopStartUnix]_vars

\* C7 witness: after two accepted samples the quality was downgraded to lost
\* and a further sample was discarded for its round-trip time.
C7_Witness ==
  /\ synced
  /\ sampleCount >= 2
  /\ quality = "lost"
  /\ rtt > MaxRttUs

\* ----------------------------------------------------- properties of Spec

\* Socket s is one the client created and still listens to.
Attached(s) == sockets[s].listeners

\* The positions of the messages of the given types in the log of socket s.
SentAt(s, types) == {i \in DOMAIN sockets[s].sent : sockets[s].sent[i] \in types}

TimeMessages == {"client/time", "client/time(loop)"}

\* C2: after stop() has returned, the continuous sync loop, every scheduler's
\* timers, the reconnect timer and the sockets of the client are inactive.
C2_NothingActiveAfterStop ==
  stopReturned =>
    /\ ~clockSyncLoopInterval
    /\ schedulers = {}
    /\ reconnectTimeout = 0
    /\ \A s \in DOMAIN sockets :
         Attached(s) => sockets[s].state \notin {"connecting", "open"}

\* C3: the delay before the k-th consecutive reconnect attempt, counted from
\* start() or from the last successful connection, is
\* min(1000 * 2^(k-1), 30000) ms.
C3_BackoffSequence ==
  attemptK > 0 =>
    attemptDelay = Min(ReconnectDelay * Pow2(attemptK - 1), MaxReconnectDelay)

\* C4: when the current socket closes unexpectedly while a stream is active,
\* no scheduler remains running, the host is notified with connected=false
\* and a reconnect is scheduled.
C4_MidStreamCloseTearsDown ==
  midStreamClose =>
    /\ schedulers = {}
    /\ lastNotify = "disconnected"
    /\ reconnectTimeout # 0

\* C8: when stop() has returned after being called with an open connection,
\* client/goodbye was sent on that socket before it was closed, the socket is
\* no longer open, and nothing was sent on it after the close.
C8_GoodbyeBeforeClose ==
  \A s \in DOMAIN sockets :
    (Attached(s) /\ sockets[s].stopDone) =>
      /\ sockets[s].state # "open"
      /\ SentAt(s, {"client/goodbye"}) # {}
      /\ \A c \in SentAt(s, {"close"}) :
           /\ \E g \in SentAt(s, {"client/goodbye"}) : g < c
           /\ c = Len(sockets[s].sent)

\* C9: on every connection the client listens to, once the transport has
\* opened, client/hello is the first message sent and it is sent exactly once.
C9_HelloFirstAndOnce ==
  \A s \in DOMAIN sockets :
    (Attached(s) /\ sockets[s].opened) =>
      /\ Cardinality(SentAt(s, {"client/hello"})) = 1
      /\ sockets[s].sent[1] = "client/hello"

\* C10: on a connection where server/hello was received, the initial
\* client/state precedes every client/time, at most five initial client/time
\* requests are sent, and at most one initial request is outstanding.
C10_StateThenFiveTimes ==
  /\ \A s \in DOMAIN sockets :
       /\ \A t \in SentAt(s, TimeMessages) :
            \E c \in SentAt(s, {"client/state"}) : c < t
       /\ Cardinality(SentAt(s, {"client/time"})) <= InitialSyncRounds
  /\ Cardinality({r \in DOMAIN syncRuns : syncRuns[r].pc = "await"}) <= 1

\* ----------------------------------------------- properties of SpecStream

\* C11: every server/command "volume" (resp. "mute") that carries a value
\* sets the local volume (resp. muted flag) to that value and emits exactly
\* one client/state reporting it, within the handling of the command.
C11_CommandEchoed ==
  [][/\ lastInbound'.type = "volume" =>
          /\ volume' = lastInbound'.value
          /\ lastInbound'.echoes = 1
          /\ lastState'.volume = lastInbound'.value
     /\ lastInbound'.type = "mute" =>
          /\ muted' = lastInbound'.flag
          /\ lastInbound'.echoes = 1
          /\ lastState'.muted = lastInbound'.flag]_vars

\* C13: after stream/end is processed the stream's scheduler is stopped (its
\* release and watchdog timers cancelled, its queue empty), the client holds
\* no scheduler, the stream format is cleared and onStreamEnd was invoked.
C13_StreamEndTearsDown ==
  [][lastInbound'.type = "stream/end" =>
       /\ ~running' /\ ~processInterval' /\ ~watchdogInterval'
       /\ bufferQueue' = << >>
       /\ scheduler' = NoScheduler /\ schedulers' = {}
       /\ ~currentStreamFormat'
       /\ streamEndCalls' = streamEndCalls + 1]_vars

\* C13: stream/end was handled while the scheduler held queued chunks.
C13_Witness ==
  /\ lastInbound.type = "stream/end"
  /\ phase = "stopped"
  /\ stats.received > stats.played + stats.dropped
  /\ bufferQueue = << >> /\ scheduler = NoScheduler

\* The session state a dropped frame or a failed decode must leave alone.
sessionState ==
  << ws, sockets, isConnected, scheduler, schedulers, currentStreamFormat,
     shouldReconnect, reconnectTimeout, volume, muted, sink,
     bufferQueue, stats, running, processInterval, watchdogInterval,
     buffering, consecutiveDrops >>

\* C14: a binary frame shorter than 9 bytes is dropped: nothing is decoded or
\* scheduled, the session state is unchanged and the connection stays as it
\* was.  A 9-byte audio frame (type 4) that arrives during a stream is
\* accepted with a zero-length payload, and enters the scheduler queue when
\* its decode resolves during the stream.
C14_ShortFrameDropped ==
  [][/\ (lastInbound'.type = "binary" /\ lastInbound'.value < 9) =>
          /\ decodes' = decodes
          /\ UNCHANGED sessionState
     /\ (/\ lastInbound'.type = "binary" /\ lastInbound'.value = 9
         /\ scheduler # NoScheduler) =>
          /\ \E d \in decodes' \ decodes :
                /\ d.bytes = 0 /\ d.path = "scheduler"
                /\ d.timestamp = ChunkTimestamp(frameCount')
          /\ sockets' = sockets /\ ws' = ws
     /\ (/\ lastInbound'.type = "decode/resolved" /\ lastInbound'.flag
         /\ lastInbound'.value = 0 /\ scheduler # NoScheduler) =>
          /\ Len(bufferQueue') = Len(bufferQueue) + 1
          /\ stats'.received = stats.received + 1]_vars

\* C14: an 8-byte frame was dropped during a stream, and the 9-byte audio
\* frame that followed it is in the scheduler queue.
C14_Witness ==
  /\ lastInbound.type = "decode/resolved" /\ lastInbound.flag
  /\ lastInbound.value = 0
  /\ frameCount = 2 /\ stats.received = 1 /\ Len(bufferQueue) = 1
  /\ bufferQueue[1].timestamp = ChunkTimestamp(2)
  /\ scheduler # NoScheduler /\ decodes = {}

\* C18: when the decode of a chunk fails or exceeds its 1 s timeout, that
\* chunk is dropped and nothing else changes: the scheduler's queue and
\* statistics, the scheduler itself, the connection and the other decodes in
\* flight are as before.
C18_DecodeFailureDropsChunk ==
  [][lastInbound'.type \in {"decode/rejected", "decode/timeout"} =>
       /\ UNCHANGED sessionState
       /\ decodes' \subseteq decodes
       /\ Cardinality(decodes') = Cardinality(decodes) - 1
       /\ Cardinality(decodeFailed') = Cardinality(decodeFailed) + 1]_vars

\* C18: the decode of a chunk of the stream failed, and a later chunk was
\* decoded and is in the queue of the running scheduler, on the open socket.
C18_Witness ==
  /\ \E t \in decodeFailed :
       \E i \in DOMAIN bufferQueue : bufferQueue[i].timestamp > t
  /\ running /\ scheduler # NoScheduler
  /\ ws # NoSocket /\ sockets[ws].state = "open"

\* C19: onAudioChunk is called only from the scheduler release path; an
\* audio chunk that arrives while no stream is active never reaches it.
C19_SinkOnlyFromScheduler == sink.fallback = 0

C12_StartFailurePolicy ==
  startFailure.seen =>
    /\ startFailure.threw <=> ~startFailure.flag
    /\ startFailure.flag => startFailure.scheduled

\* C12: a start() failed with the flag set and a reconnect timer is pending.
C12_Witness ==
  /\ startFailure.seen /\ startFailure.flag /\ ~startFailure.threw
  /\ reconnectTimeout # 0

\* C16: on each reconnect attempt, a client whose server address was
\* discovered (none configured) reruns discovery before it connects, and a
\* client with a configured address connects to it without discovery.
C16_RediscoverOnReconnect ==
  [][attemptK' = attemptK + 1 =>
       IF configServerAddr
       THEN /\ discovery' = "none" /\ discoveryCount' = discoveryCount
            /\ Len(sockets') = Len(sockets) + 1
       ELSE /\ discovery' = "reconnect"
            /\ discoveryCount' = discoveryCount + 1
            /\ Len(sockets') = Len(sockets)]_vars

\* C17: once stop() has been called and until start() is called again, no
\* discovery and no connection attempt is begun, whatever timer was pending,
\* whatever discovery or connect was in flight and whatever socket events
\* arrive.
C17_NoAttemptAfterStop ==
  [][(hostPhase \in {"stopping", "stopped"} /\ hostPhase' # "started") =>
       /\ Len(sockets') = Len(sockets)
       /\ discoveryCount' = discoveryCount
       /\ discovery' \in {"none", "canceled"}
       /\ reconnectTimeout' = 0]_vars

\* C17: stop() returned; a socket that was open when stop() was called has
\* closed since, and nothing was begun.
C17_Witness ==
  /\ hostPhase = "stopped" /\ stopReturned
  /\ \E s \in DOMAIN sockets :
       sockets[s].stopOpen /\ sockets[s].state = "closed"
  /\ reconnectTimeout = 0 /\ discovery = "none" /\ ws = NoSocket

\* ------------------------------------------------ properties of SpecSync

\* The state of the Clock Filter.
clockFilter == << serverLoopStartUnix, rtt, quality, lastSync, sampleCount,
                  synced >>

\* C15: a server/time reply whose client_transmitted is not in the pending
\* table leaves the Clock Filter unchanged, and every step that changes the
\* filter is a reply that takes its request out of the table, so that a
\* request feeds the filter at most once.
C15_StaleReplyIgnored ==
  [][/\ (lastInbound'.type = "server/time" /\ ~lastInbound'.flag) =>
          UNCHANGED clockFilter
     /\ clockFilter' # clockFilter =>
          /\ lastInbound'.type = "server/time"
          /\ lastInbound'.value \in pendingSyncRequests
          /\ lastInbound'.value \notin pendingSyncRequests']_vars

\* C15: after the filter was fed, a reply arrived that names a request which
\* was sent and is no longer pending.
C15_Witness ==
  /\ lastInbound.type = "server/time" /\ ~lastInbound.flag
  /\ lastInbound.value <= timeSeq
  /\ sampleCount >= 1

\* ------------------------------------ properties of SpecClock, continued

\* A step in which processSyncResponse handled a sample.
SampleProcessed ==
  /\ now' = now
  /\ << rtt, lastSync, sampleCount >>' # << rtt, lastSync, sampleCount >>

\* C21: a sync sample whose RTT is exactly 100000 us is rejected (the origin
\* is not anchored, the accepted count and the quality stay as they were),
\* and a sample whose RTT is 99999 us is accepted.
C21_RttBoundary ==
  [][SampleProcessed =>
       /\ rtt' = MaxRttUs =>
            /\ sampleCount' = sampleCount /\ quality' = quality
            /\ synced' = synced
            /\ serverLoopStartUnix' = serverLoopStartUnix
       /\ rtt' = MaxRttUs - 1 =>
            /\ sampleCount' = sampleCount + 1 /\ synced'
            /\ quality' # "lost"]_vars

\* ------------------------------------ properties of SpecSched, continued

\* C22: at ingress, a chunk whose play instant is 50001 us before the clock
\* reading is dropped (dropped and consecutiveDrops incremented, the queue
\* unchanged), and a chunk whose play instant is 50000 us before it is kept
\* and queued (the queue has room for it).
C22_LateBoundary ==
  [][lastIngress' # NoIngress =>
       LET delta == lastIngress'.playAtUs - lastIngress'.atUs
       IN /\ delta = 0 - (LateWindowMs * 1000 + 1) =>
               /\ stats'.dropped = stats.dropped + 1
               /\ consecutiveDrops' = consecutiveDrops + 1
               /\ bufferQueue' = bufferQueue
          /\ (delta = 0 - LateWindowMs * 1000 /\ ~QueueFull(SchedState)) =>
               /\ stats'.dropped = stats.dropped
               /\ Len(bufferQueue') = Len(bufferQueue) + 1
               /\ \E i \in DOMAIN bufferQueue' :
                     bufferQueue'[i].playAtUs = lastIngress'.playAtUs]_vars

\* C22: a chunk 50001 us late was dropped at ingress, and the chunk that is
\* 50000 us late has just been queued.
C22_Witness ==
  /\ lastIngress # NoIngress
  /\ lastIngress.playAtUs - lastIngress.atUs = 0 - LateWindowMs * 1000
  /\ stats.received = 2 /\ stats.dropped = 1 /\ Len(bufferQueue) = 1
  /\ bufferQueue[1].playAtUs = lastIngress.playAtUs

\* C23: in every state of the clock filter, if at least one sample has been
\* accepted the server loop origin is set, and while the origin is unset
\* the quality is lost.
C23_OriginSetOnceAccepted ==
  /\ sampleCount > 0 => serverLoopStartUnix # Null
  /\ serverLoopStartUnix = Null => quality = "lost"

\* C23: two samples were accepted, the second with a high RTT, and the origin
\* is set.
C23_Witness ==
  /\ sampleCount = 2 /\ quality = "degraded" /\ synced
  /\ serverLoopStartUnix # Null

\* ---------------------------------------------- properties of SpecConvert

\* C24: whenever the sync quality is good, serverToUnixTime(0) returns the
\* server loop origin, for every server loop time t2 of the anchoring sample.
C24_ZeroMapsToOrigin ==
  (/\ lastConverted.called /\ lastConverted.serverTime = WideOf(0)
   /\ quality = "good") =>
    lastConverted.value = serverLoopStartWide

\* C25: whenever the clock quality is read more than 5000000 us after the
\* last processed sync response it is lost, and once lost it stays lost until
\* a later sample is accepted.
C25_StaleSyncIsLost ==
  [][/\ (/\ lastConverted'.called /\ lastSync' # Null
         /\ now' - lastSync' > StaleSyncMs) => quality' = "lost"
     /\ (quality = "lost" /\ quality' # "lost") =>
          /\ sampleCount' = sampleCount + 1
          /\ lastSync' = now']_vars

\* C25: a sample was accepted, the server went silent, and the quality read
\* more than 5 s later is lost.
C25_Witness ==
  /\ lastConverted.called /\ sampleCount > 0
  /\ now - lastSync > StaleSyncMs /\ now - lastSync <= StaleSyncMs + 1000
  /\ quality = "lost"

C26_ServerStateUpdatesPlayback ==
  [][(/\ lastInbound'.type \in {"server/state", "group/update",
                                "session/update"}
      /\ lastInbound'.state # Absent) =>
       /\ playbackState' = ToLowerCase(lastInbound'.state)
       /\ playbackNotified' = playbackState']_vars

\* ------------------------------------ properties of SpecStream, continued

\* C27: audio chunks are handed to the scheduler in the order their binary
\* frames were received, whatever the order in which their decodes complete:
\* a chunk handed to the scheduler was received after every chunk its queue
\* holds.
C27_ScheduledInWireOrder ==
  [][\A d \in decodes \ decodes' :
       (d.path = "scheduler" /\ stats'.received = stats.received + 1) =>
         \A i \in DOMAIN bufferQueue :
            bufferQueue[i].timestamp < d.timestamp]_vars

\* ------------------------------------------------- properties of SpecHeap

\* The chunks the last release pass took off the queue.
lastPass == lastReleased \cup lastDropped

C29_WatchdogEndsLongBuffering ==
  (BufferingNow(SchedState) /\ watchdogInterval
     /\ now - bufferingSince > BufferingTimeoutMs)
    => ~CheckForHang(SchedState).buffering
       \/ CheckForHang(SchedState).bufferStartTime = now

\* C30: from every state in which buffering is set and the release timer
\* runs, a release pass with fewer than bufferTarget
\* chunks queued plays nothing, drops nothing and leaves buffering set; a
\* release pass with at least bufferTarget chunks queued clears buffering
\* and goes through the queue: every chunk it leaves queued is more than
\* 50 ms early, and every chunk it took was played or dropped.
C30_BufferingGate ==
  (processInterval /\ buffering) =>
    LET after == ProcessQueue(SchedState)
    IN IF Len(bufferQueue) < bufferTarget
       THEN /\ after.buffering
            /\ after.bufferQueue = bufferQueue
            /\ after.stats = stats
            /\ after.lastReleased = {} /\ after.lastDropped = {}
       ELSE /\ ~after.buffering
            /\ \A i \in DOMAIN after.bufferQueue :
                  after.bufferQueue[i].playAt - now > LateWindowMs
            /\ Len(after.bufferQueue)
                 + Cardinality(after.lastReleased)
                 + Cardinality(after.lastDropped)
               = Len(bufferQueue)
            /\ after.stats.played
                 = stats.played + Cardinality(after.lastReleased)
            /\ after.stats.dropped
                 = stats.dropped + Cardinality(after.lastDropped)

\* C30: the release pass that ended buffering played the bufferTarget chunks
\* that were queued, the first chunks the scheduler played.
C30_Witness ==
  /\ running /\ ~buffering /\ bufferStartTime # Null
  /\ Cardinality(lastReleased) = bufferTarget
  /\ stats.played = bufferTarget

\* ---------------------------------------------- properties of SpecSyncLive

\* C31: after server/hello is received on a connection that stays open and
\* is not stopped, the initial sync terminates and the continuous sync loop
\* is then running, however many of the five replies arrive.
C31_InitialSyncTerminates ==
  (\E s \in DOMAIN sockets : sockets[s].helloSeen)
    ~> (initialSyncComplete /\ clockSyncLoopInterval)

\* C31: the initial sync completed and the loop runs although no reply was
\* ever accepted by the clock.
C31_Witness ==
  /\ \E s \in DOMAIN sockets : sockets[s].helloSeen /\ sockets[s].state = "open"
  /\ initialSyncComplete /\ clockSyncLoopInterval
  /\ sampleCount = 0

\* -------------------------------------- properties of SpecHang: recovery

\* C33: a watchdog tick that recovers empties the queue, adds the number of
\* discarded chunks to stats.dropped, sets buffering, resets consecutiveDrops
\* to 0 and restarts the buffering deadline from the current time; it leaves
\* stats.received, stats.played and running unchanged.
C33_RecoveryEffect ==
  [][droppedCount' # Null =>
       /\ droppedCount' = Len(bufferQueue)
       /\ bufferQueue' = << >>
       /\ stats'.dropped = stats.dropped + Len(bufferQueue)
       /\ buffering'
       /\ consecutiveDrops' = 0
       /\ bufferStartTime' = now'
       /\ stats'.received = stats.received
       /\ stats'.played = stats.played
       /\ running' = running]_vars

\* C33: the watchdog recovered and discarded at least one queued chunk.
C33_Witness ==
  /\ droppedCount # Null /\ droppedCount >= 1
  /\ running /\ buffering /\ bufferQueue = << >>
  /\ stats.dropped >= droppedCount

\* ---------------------------------------------- properties of SpecRestart

\* C34: at most one scheduler is running, with its release and watchdog
\* timers active, at any time: a stream/start received while a stream is
\* active does not leave the scheduler of the previous stream running.
C34_OneSchedulerRunning ==
  Cardinality(schedulers) <= 1

\* ------------------------------------------ properties of SpecConn: sockets

\* C35: the close event of a socket that is no longer the current one never
\* alters the session: while the current socket is open it does not clear
\* the reference to the current socket, does not mark the client
\* disconnected and does not schedule a reconnect.
C35_OldSocketCloseIsInert ==
  [][\A s \in DOMAIN sockets :
       (/\ sockets[s].state # "closed" /\ sockets'[s].state = "closed"
        /\ ws # NoSocket /\ ws # s /\ sockets[ws].state = "open") =>
         /\ ws' = ws
         /\ isConnected' = isConnected
         /\ reconnectAttempts' = reconnectAttempts
         /\ reconnectTimeout' = reconnectTimeout]_vars

\* ------------------------------------------ properties of Spec: handshake

\* C36: on each connection, including connections established by reconnect,
\* no client/time message is sent before server/hello has been received on
\* that connection.
C36_NoTimeBeforeHello ==
  \A s \in DOMAIN sockets :
    ~sockets[s].helloSeen => SentAt(s, TimeMessages) = {}

\* --------------------------------------------- properties of SpecRestream

\* C37: a chunk whose frame was received during one stream is never queued
\* in the scheduler of a later stream: a decode that completes is scheduled
\* only on the scheduler the client held when the frame arrived.
C37_ChunkStaysInItsStream ==
  [][\A d \in decodes \ decodes' :
       (d.path = "scheduler" /\ stats'.received = stats.received + 1) =>
         d.stream = scheduler]_vars

\* -------------------------------------------------- properties of SpecCmd

\* C38: every client/state sent for a server/command carries the client's
\* current volume and current muted flag; after a mute command has set
\* muted, the client/state echoed for a later volume command reports muted.
C38_EchoCarriesCurrentState ==
  [][(lastInbound'.type \in {"volume", "mute"} /\ lastInbound'.echoes = 1) =>
       /\ lastState'.volume = volume'
       /\ lastState'.muted = muted']_vars

\* ---------------------------------------------- properties of SpecConnLive

\* C39: every connect() attempt eventually settles: for every ordering of
\* the open, error, close and timeout events of its socket, the promise is
\* resolved or rejected and is never left pending forever.
C39_EveryConnectSettles ==
  \A s \in 1..(MaxSockets + 1) :
    (s \in DOMAIN sockets)
      ~> (s \in DOMAIN sockets /\ sockets[s].connectionResolved)

\* ----------------------------------------------- properties of SpecConfig

\* C40: for every configured bufferMs, bufferTarget <= maxQueueSize, so the
\* queue can reach the buffering target through enqueues alone.
C40_TargetFitsQueue ==
  constructed # NotConstructed =>
    constructed.bufferTarget <= constructed.maxQueueSize

====
